---- MODULE Spec2Model ----
(***************************************************************************)
(* Model of the catbench leaderboard core: the record normalizer and the   *)
(* tabular row projector of src/utils/dataTransform.js, and the Pareto     *)
(* frontier engine, step-curve builder and region builder of the           *)
(* leaderboard component (src/utils/colorSchemes.js).                      *)
(*                                                                         *)
(* JavaScript values are tagged records: Null, Undefined, Num(n), Arr(s).  *)
(* A JavaScript object is a function from its own keys to values; reading  *)
(* a key the object does not have yields Undefined (Get).  Each function   *)
(* of the source is an operator; each specification draws the arguments of *)
(* one group of functions from bounded sets and applies them.              *)
(***************************************************************************)
EXTENDS Integers, Sequences, FiniteSets, TLC

VARIABLES
    pc,            \* "ready" before a call, then the name of the function that
                   \* returned or "TypeError" after a raise; "mounted" before
                   \* a render of the component, then "render"
    data,          \* getParetoFrontier: the argument `data` (a list of records)
    minimize,      \* getParetoFrontier: the argument `minimize`
    frontier,      \* getParetoFrontier: the returned list
    jsonData,      \* dataTransform.js: the argument `jsonData` (the document);
                   \* App: the state `data`, the prop `data` of the component
    datasetName,   \* dataTransform.js: the argument `datasetName`
    models,        \* transformDataFor...: the returned list of records
    paretoData,    \* getParetoLineData, getParetoAreaData: the argument `paretoData`
    allData,       \* getParetoAreaData: the argument `allData`
    maxX,          \* getParetoAreaData: the argument `maxX`
    maxY,          \* getParetoAreaData: the argument `maxY`
    isMinimizeY,   \* getParetoAreaData: the argument `isMinimizeY`
    lineData,      \* getParetoLineData: the returned list of vertices
    areaData,      \* getParetoAreaData: the returned list of vertices
    mlipName,      \* get...AdsorbateBreakdown: the argument `mlipName`
    rows,          \* get...AdsorbateBreakdown: the returned array, or null
    stores,        \* get...AdsorbateBreakdown: per row and column, the
                   \* assignments rowObj[key] = value made, in order
    currentData,   \* CatBenchLeaderboard: the memo `currentData`
    memos,         \* CatBenchLeaderboard: the six frontier, curve and region
                   \* memos, by name
    areaCalls,     \* CatBenchLeaderboard: the calls of getParetoAreaData the
                   \* region memos made, in order
    loading,       \* App: the state `loading`
    error,         \* App: the state `error`
    view,          \* App: what the last render returned
    activeTab,     \* CatBenchLeaderboard: the state `activeTab`
    selectedDataset,    \* CatBenchLeaderboard: the state `selectedDataset`
    sortColumn,    \* CatBenchLeaderboard: the state `sortColumn`
    sortDirection, \* CatBenchLeaderboard: the state `sortDirection`
    selectedModel, \* CatBenchLeaderboard: the state `selectedModel`
    tabTransition, \* CatBenchLeaderboard: the state `tabTransition`
    hoveredModel,  \* CatBenchLeaderboard: the state `hoveredModel`
    searchQuery,   \* CatBenchLeaderboard: the state `searchQuery`, as characters
    datasetSearchQuery, \* CatBenchLeaderboard: the state `datasetSearchQuery`
    filteredData,  \* CatBenchLeaderboard: the memo `filteredData`
    sortedData,    \* CatBenchLeaderboard: the memo `sortedData`
    timers,        \* the pending setTimeout callbacks, in creation order
    effectPending, \* the effect of lines 200-206 has yet to run and will
                   \* queue an update (a run that finds nothing to do leaves
                   \* no trace and is not tracked)
    updates,       \* the state updates queued by timer callbacks, pointer
                   \* handlers and the effect and not yet rendered: one
                   \* queue per state
    recomputed,    \* which of currentData and the six frontier, curve and
                   \* region memos the renders of the last step evaluated
    clicked        \* the tab of the last click the tab handler did not ignore

paretoVars == <<data, minimize, frontier>>
normVars == <<jsonData, datasetName, models>>
curveVars == <<paretoData, allData, maxX, maxY, isMinimizeY, lineData, areaData>>
tableVars == <<mlipName, rows, stores>>
appVars == <<loading, error, view>>
uiVars == <<activeTab, selectedDataset, sortColumn, sortDirection, selectedModel,
            tabTransition, hoveredModel, searchQuery, datasetSearchQuery,
            filteredData, sortedData, timers, updates, effectPending,
            recomputed, clicked>>
boardVars == <<currentData, memos, areaCalls, appVars, uiVars>>
vars == <<pc, paretoVars, normVars, curveVars, tableVars, boardVars>>

\* the values the variables of a component hold while another is exercised
NoValue == [type |-> "null"]
IdlePareto == data = <<>> /\ minimize = <<TRUE, FALSE>> /\ frontier = <<>>
IdleNormalize == jsonData = NoValue /\ datasetName = "" /\ models = <<>>
IdleCurve ==
    /\ paretoData = <<>> /\ allData = <<>>
    /\ maxX = NoValue /\ maxY = NoValue /\ isMinimizeY = TRUE
    /\ lineData = <<>> /\ areaData = <<>>
IdleTable == mlipName = "" /\ rows = NoValue /\ stores = <<>>
IdleApp == loading = TRUE /\ error = NoValue /\ view = "loading"
\* the useState defaults of lines 170-182, before any render
IdleUi ==
    /\ activeTab = "overview" /\ selectedDataset = NoValue
    /\ sortColumn = "maeNormal" /\ sortDirection = "asc"
    /\ selectedModel = NoValue /\ tabTransition = FALSE /\ hoveredModel = NoValue
    /\ searchQuery = <<>> /\ datasetSearchQuery = <<>>
    /\ filteredData = <<>> /\ sortedData = <<>>
    /\ timers = <<>> /\ effectPending = FALSE
    /\ updates = [activeTab |-> <<>>, tabTransition |-> <<>>,
                  selectedDataset |-> <<>>, hoveredModel |-> <<>>]
    /\ recomputed = {} /\ clicked = NoValue
IdleBoard ==
    /\ currentData = <<>> /\ memos = NoValue /\ areaCalls = <<>>
    /\ IdleApp /\ IdleUi

----------------------------------------------------------------------------
(* JavaScript values *)

Null == [type |-> "null"]
Undefined == [type |-> "undefined"]
Num(n) == [type |-> "number", val |-> n]
Str(s) == [type |-> "string", val |-> s]

\* obj[key]
Get(obj, key) == IF key \in DOMAIN obj THEN obj[key] ELSE Undefined

\* ToNumber of null is 0; every comparison with undefined (NaN) is false
ToNumber(v) == IF v = Null THEN 0 ELSE v.val
Lt(a, b) == a # Undefined /\ b # Undefined /\ ToNumber(a) < ToNumber(b)
Le(a, b) == a # Undefined /\ b # Undefined /\ ToNumber(a) <= ToNumber(b)
Gt(a, b) == Lt(b, a)
Ge(a, b) == Le(b, a)

\* { ...obj, [key]: v }
Put(obj, key, v) == (key :> v) @@ obj

\* the empty object {}
EmptyObj == [k \in {} |-> Null]

\* !!v for the values a document holds: null, undefined and 0 are falsy,
\* every object is truthy
Truthy(v) == v # Null /\ v # Undefined /\ v # Num(0) /\ v # Str("")

\* a ?? b with the operator || in its place
Coalesce_or(a, b) == IF Truthy(a) THEN a ELSE b

\* a ?? b
Coalesce(a, b) == IF a = Null \/ a = Undefined THEN b ELSE a

\* a || b
Or(a, b) == IF Truthy(a) THEN a ELSE b

\* the exception a property read of null or undefined raises
TypeError == [type |-> "TypeError"]

\* obj.key and obj[key]: raises when obj is null or undefined
Member(obj, key) == IF obj = Null \/ obj = Undefined THEN TypeError ELSE Get(obj, key)

\* obj?.[key] with the plain read obj[key] in its place
OptionalGet_noGuard(obj, key) == Member(obj, key)

\* obj?.[key]
OptionalGet(obj, key) == IF obj = Null \/ obj = Undefined THEN Undefined ELSE Get(obj, key)

\* an array that a document holds or a function returns
Arr(items) == [type |-> "array", items |-> items]

\* Array.isArray(v)
IsArray(v) == DOMAIN v = {"type", "items"}

\* array[i], the first element at i = 1
At(array, i) == IF i \in 1..Len(array.items) THEN array.items[i] ELSE Undefined

\* an object whose key order matters, held as its list of <<key, value>>
\* entries in insertion order (the keys are not integer-like, so that
\* Object.entries yields them in insertion order)
OrderedObj(entries) == [type |-> "object", entries |-> entries]
ObjectEntries(obj) == obj.entries

----------------------------------------------------------------------------
(* Bounds *)

MaxRecords == 3

\* the timers and queued updates a click may find pending
MaxPending == 2

\* the most models a document holds
MaxModels == 2

\* the most points a frontier handed to the curve and region builders holds
MaxFrontier == 3

\* the most columns an enumerated table holds
MaxColumns == 2

\* the metric values the enumerated inputs draw from
Values == {20, 40}

ModelNames == <<"m1", "m2", "m3", "m4", "m5">>

XKey == "timePerStep"
YKey == "maeNormal"

----------------------------------------------------------------------------
(* Array.prototype.sort((a, b) => a[key] - b[key]): stable, ascending *)

\* a sort that places an element before the elements it ties with
InsertByKey_beforeTies(sorted, e, key) ==
    LET pos == Cardinality({i \in 1..Len(sorted) : Lt(Get(sorted[i], key), Get(e, key))})
    IN  SubSeq(sorted, 1, pos) \o <<e>> \o SubSeq(sorted, pos + 1, Len(sorted))

InsertByKey(sorted, e, key) ==
    LET pos == Cardinality({i \in 1..Len(sorted) : ~Gt(Get(sorted[i], key), Get(e, key))})
    IN  SubSeq(sorted, 1, pos) \o <<e>> \o SubSeq(sorted, pos + 1, Len(sorted))

RECURSIVE SortByKey(_, _)
SortByKey(s, key) ==
    IF Len(s) <= 1 THEN s
    ELSE InsertByKey(SortByKey(SubSeq(s, 1, Len(s) - 1), key), s[Len(s)], key)

----------------------------------------------------------------------------
(* getParetoFrontier *)

\* a filter that forgets the null test of the y key
Qualifies_noNullY(d, xKey, yKey) ==
    /\ Get(d, xKey) # Null /\ Get(d, xKey) # Undefined
    /\ Get(d, yKey) # Undefined

\* the filter predicate of line 253
Qualifies(d, xKey, yKey) ==
    /\ Get(d, xKey) # Null /\ Get(d, xKey) # Undefined
    /\ Get(d, yKey) # Null /\ Get(d, yKey) # Undefined

\* a map that builds { x, y } without spreading the record
ParetoPoints_noSpread(dat, xKey, yKey) ==
    LET kept == SelectSeq(dat, LAMBDA d : Qualifies(d, xKey, yKey))
    IN  [i \in 1..Len(kept) |-> [x |-> Get(kept[i], xKey), y |-> Get(kept[i], yKey)]]

\* .filter(...).map(d => ({ ...d, x: d[xKey], y: d[yKey] }))
ParetoPoints(dat, xKey, yKey) ==
    LET kept == SelectSeq(dat, LAMBDA d : Qualifies(d, xKey, yKey))
    IN  [i \in 1..Len(kept) |->
            Put(Put(kept[i], "x", Get(kept[i], xKey)), "y", Get(kept[i], yKey))]

\* a dominance test that asks for a strictly smaller x
Dominates_strictX(pj, pi, min) ==
    IF min[1] /\ min[2] THEN
        Lt(pj.x, pi.x) /\ Le(pj.y, pi.y)
    ELSE IF min[1] /\ ~min[2] THEN
        Lt(pj.x, pi.x) /\ Ge(pj.y, pi.y)
    ELSE FALSE

\* a dominance test that asks for a strict improvement on both axes
Dominates_strictBoth(pj, pi, min) ==
    IF min[1] /\ min[2] THEN
        Lt(pj.x, pi.x) /\ Lt(pj.y, pi.y)
    ELSE IF min[1] /\ ~min[2] THEN
        Lt(pj.x, pi.x) /\ Gt(pj.y, pi.y)
    ELSE FALSE

\* the two conditions that clear isPareto (lines 263-277); no branch exists
\* for minimize[0] = false
Dominates(pj, pi, min) ==
    IF min[1] /\ min[2] THEN
        /\ Le(pj.x, pi.x) /\ Le(pj.y, pi.y)
        /\ (Lt(pj.x, pi.x) \/ Lt(pj.y, pi.y))
    ELSE IF min[1] /\ ~min[2] THEN
        /\ Le(pj.x, pi.x) /\ Ge(pj.y, pi.y)
        /\ (Lt(pj.x, pi.x) \/ Gt(pj.y, pi.y))
    ELSE FALSE

\* an outer loop that starts at the second point
ParetoIndices_skipFirst(points, min) ==
    SelectSeq([i \in 1..Len(points) |-> i],
              LAMBDA i : i > 1 /\ ~\E j \in 1..Len(points) :
                                      j # i /\ Dominates(points[j], points[i], min))

\* the double loop of lines 259-283: the indices pushed, in ascending order
ParetoIndices(points, min) ==
    SelectSeq([i \in 1..Len(points) |-> i],
              LAMBDA i : ~\E j \in 1..Len(points) :
                             j # i /\ Dominates(points[j], points[i], min))

(* Arrays and objects by reference.  A heap is a sequence of cells and a
   reference is an index into it: an array cell holds the references of its
   elements, an object cell holds the fields of a record. *)

ArrayCell(items) == [kind |-> "array", items |-> items]
ObjectCell(value) == [kind |-> "object", value |-> value]

\* the heap with a list of records added: one object per record, then the
\* array of them, which is the last cell
HeapWith(heap, list) ==
    heap \o [i \in 1..Len(list) |-> ObjectCell(list[i])]
         \o <<ArrayCell([i \in 1..Len(list) |-> Len(heap) + i])>>

\* the list an array stands for: its elements, each with its fields
ListAt(heap, ref) ==
    [i \in 1..Len(heap[ref].items) |-> heap[heap[ref].items[i]].value]

\* array.filter(d => d[xKey] !== null && ...): a new array of the elements
\* kept, the last cell
HeapFilter(heap, ref, xKey, yKey) ==
    Append(heap, ArrayCell(SelectSeq(heap[ref].items,
                                     LAMBDA r : Qualifies(heap[r].value, xKey, yKey))))

\* a map that adds x and y to the records themselves
HeapMapSpread_assign(heap, ref, xKey, yKey) ==
    LET items == heap[ref].items
        assigned == [r \in 1..Len(heap) |->
                        IF \E i \in 1..Len(items) : items[i] = r
                        THEN ObjectCell(Put(Put(heap[r].value,
                                                "x", Get(heap[r].value, xKey)),
                                            "y", Get(heap[r].value, yKey)))
                        ELSE heap[r]]
    IN  Append(assigned, ArrayCell(items))

\* array.map(d => ({ ...d, x: d[xKey], y: d[yKey] })): a new object per
\* element, holding its fields and x and y, then the new array of them
HeapMapSpread(heap, ref, xKey, yKey) ==
    LET items == heap[ref].items
    IN  heap \o [i \in 1..Len(items) |->
                    ObjectCell(Put(Put(heap[items[i]].value,
                                       "x", Get(heap[items[i]].value, xKey)),
                                   "y", Get(heap[items[i]].value, yKey)))]
             \o <<ArrayCell([i \in 1..Len(items) |-> Len(heap) + i])>>

\* indices.map(i => array[i]): a new array of the elements picked
HeapPick(heap, ref, indices) ==
    Append(heap, ArrayCell([k \in 1..Len(indices) |-> heap[ref].items[indices[k]]]))

\* the references of an array in the order array.sort((a, b) => a[key] -
\* b[key]) leaves them in
SortRefs(heap, items, key) ==
    LET tagged == [i \in 1..Len(items) |->
                      Put(Put(EmptyObj, "ref", items[i]),
                          key, Get(heap[items[i]].value, key))]
        sorted == SortByKey(tagged, key)
    IN  [i \in 1..Len(items) |-> sorted[i]["ref"]]

\* array.sort(...): the array itself is reordered
HeapSort(heap, ref, key) ==
    [heap EXCEPT ![ref] = ArrayCell(SortRefs(heap, heap[ref].items, key))]

\* array.sort(...) with no copy taken: the argument is reordered, and is
\* the array the function goes on with
SortedCopy_inPlace(heap, ref, key) ==
    LET sorted == HeapSort(heap, ref, key)
    IN  Append(sorted, sorted[ref])

\* [...array].sort(...): the spread builds a new array of the same
\* elements, the last cell, and that array is reordered
SortedCopy(heap, ref, key) ==
    HeapSort(Append(heap, ArrayCell(heap[ref].items)), Len(heap) + 1, key)

\* the heap when getParetoFrontier returns (lines 252-289); the argument
\* is the array cell Len(dat) + 1, the returned array is the last cell
HeapAfterGetParetoFrontier(dat, xKey, yKey, min) ==
    LET given == HeapWith(<<>>, dat)
        filtered == HeapFilter(given, Len(given), xKey, yKey)
        mapped == HeapMapSpread(filtered, Len(filtered), xKey, yKey)
        paretoIndices == ParetoIndices(ListAt(mapped, Len(mapped)), min)
        picked == HeapPick(mapped, Len(mapped), paretoIndices)
    IN  HeapSort(picked, Len(picked), "x")

\* the argument `data` when getParetoFrontier returns
DataAfterGetParetoFrontier(dat, xKey, yKey, min) ==
    ListAt(HeapAfterGetParetoFrontier(dat, xKey, yKey, min), Len(dat) + 1)

\* a frontier returned in the order of the pushes, without the final sort
getParetoFrontier_unsorted(dat, xKey, yKey, min) ==
    LET points == ParetoPoints(dat, xKey, yKey)
        paretoIndices == ParetoIndices(points, min)
    IN  [k \in 1..Len(paretoIndices) |-> points[paretoIndices[k]]]

getParetoFrontier(dat, xKey, yKey, min) ==
    LET points == ParetoPoints(dat, xKey, yKey)
        paretoIndices == ParetoIndices(points, min)
    IN  SortByKey([k \in 1..Len(paretoIndices) |-> points[paretoIndices[k]]], "x")


----------------------------------------------------------------------------
(* transformDataForDataset and transformDataForAverage (dataTransform.js) *)

\* the five metric keys the record literals read (lines 30-39, 67-76)
MetricKeys ==
    <<"MAE_total (eV)", "MAE_normal (eV)", "Normal rate (%)", "ADwT (%)",
      "Time_per_step (s)">>

\* a record builder that reads a reserved field from the metrics
DatasetRecord_readsReserved(name, datasetMetrics) ==
    [model |-> name,
     maeTotal |-> Coalesce(Get(datasetMetrics, "MAE_total (eV)"), Null),
     maeNormal |-> Coalesce(Get(datasetMetrics, "MAE_normal (eV)"), Null),
     normalRate |-> Coalesce(Get(datasetMetrics, "Normal rate (%)"), Null),
     adsorbateMigration |-> Coalesce(Get(datasetMetrics, "adsorbateMigration"), Null),
     reproductionFailure |-> Null,
     unphysicalRelaxation |-> Null,
     energyAnomaly |-> Null,
     adwt |-> Coalesce(Get(datasetMetrics, "ADwT (%)"), Null),
     amdwt |-> Null,
     timePerStep |-> Coalesce(Get(datasetMetrics, "Time_per_step (s)"), Null)]

\* the object literal of lines 28-40
DatasetRecord(name, datasetMetrics) ==
    [model |-> name,
     maeTotal |-> Coalesce(Get(datasetMetrics, "MAE_total (eV)"), Null),
     maeNormal |-> Coalesce(Get(datasetMetrics, "MAE_normal (eV)"), Null),
     normalRate |-> Coalesce(Get(datasetMetrics, "Normal rate (%)"), Null),
     adsorbateMigration |-> Null,
     reproductionFailure |-> Null,
     unphysicalRelaxation |-> Null,
     energyAnomaly |-> Null,
     adwt |-> Coalesce(Get(datasetMetrics, "ADwT (%)"), Null),
     amdwt |-> Null,
     timePerStep |-> Coalesce(Get(datasetMetrics, "Time_per_step (s)"), Null)]

\* mlipData.datasets?.[datasetName]
DatasetMetrics(mlipData, dsName) ==
    LET datasets == Member(mlipData, "datasets")
    IN  IF datasets = TypeError THEN TypeError ELSE OptionalGet(datasets, dsName)

\* a loop that never skips a model
KeepsModel_always(mlipData, dsName) == TRUE

\* the negation of the `continue` condition of lines 23-25
KeepsModel(mlipData, dsName) == Truthy(DatasetMetrics(mlipData, dsName))

transformDataForDataset(json, dsName) ==
    IF ~Truthy(json) \/ ~Truthy(Get(json, "mlips")) THEN <<>>
    ELSE LET kept == SelectSeq(ObjectEntries(json.mlips),
                               LAMBDA e : KeepsModel(e[2], dsName))
         IN  [i \in 1..Len(kept) |->
                 DatasetRecord(kept[i][1], DatasetMetrics(kept[i][2], dsName))]

\* whether transformDataForDataset(json, dsName) raises: the loop body reads
\* mlipData.datasets of every model entry (line 22)
transformDataForDatasetThrows(json, dsName) ==
    /\ Truthy(json) /\ Truthy(Get(json, "mlips"))
    /\ \E i \in 1..Len(ObjectEntries(json.mlips)) :
          DatasetMetrics(ObjectEntries(json.mlips)[i][2], dsName) = TypeError

\* a lookup that takes the statistics entry for its mean
MeanOf_wholeEntry(averageMetrics, key) == Coalesce(Get(averageMetrics, key), Null)

\* averageMetrics[key]?.mean ?? null
MeanOf(averageMetrics, key) == Coalesce(OptionalGet(Get(averageMetrics, key), "mean"), Null)

\* the object literal of lines 65-77
AverageRecord(name, averageMetrics) ==
    [model |-> name,
     maeTotal |-> MeanOf(averageMetrics, "MAE_total (eV)"),
     maeNormal |-> MeanOf(averageMetrics, "MAE_normal (eV)"),
     normalRate |-> MeanOf(averageMetrics, "Normal rate (%)"),
     adsorbateMigration |-> Null,
     reproductionFailure |-> Null,
     unphysicalRelaxation |-> Null,
     energyAnomaly |-> Null,
     adwt |-> MeanOf(averageMetrics, "ADwT (%)"),
     amdwt |-> Null,
     timePerStep |-> MeanOf(averageMetrics, "Time_per_step (s)")]

\* an average view that skips the models without average_metrics
transformDataForAverage_skipsEmpty(json) ==
    IF ~Truthy(json) \/ ~Truthy(Get(json, "mlips")) THEN <<>>
    ELSE LET entries == SelectSeq(ObjectEntries(json.mlips),
                                  LAMBDA e : Truthy(Get(e[2], "average_metrics")))
         IN  [i \in 1..Len(entries) |->
                 AverageRecord(entries[i][1],
                               Or(Get(entries[i][2], "average_metrics"), EmptyObj))]

transformDataForAverage(json) ==
    IF ~Truthy(json) \/ ~Truthy(Get(json, "mlips")) THEN <<>>
    ELSE LET entries == ObjectEntries(json.mlips)
         IN  [i \in 1..Len(entries) |->
                 AverageRecord(entries[i][1],
                               Or(Get(entries[i][2], "average_metrics"), EmptyObj))]

\* whether transformDataForAverage(json) raises: the loop body reads
\* mlipData.datasets and mlipData.average_metrics (lines 61-63) and the five
\* means (lines 67-76) of every model entry
transformDataForAverageThrows(json) ==
    /\ Truthy(json) /\ Truthy(Get(json, "mlips"))
    /\ \E i \in 1..Len(ObjectEntries(json.mlips)) :
          LET mlipData == ObjectEntries(json.mlips)[i][2]
          IN  \/ Member(mlipData, "datasets") = TypeError
              \/ \E k \in 1..Len(MetricKeys) :
                    MeanOf(Or(Get(mlipData, "average_metrics"), EmptyObj),
                           MetricKeys[k]) = TypeError

----------------------------------------------------------------------------
(* Inputs of the frontier engine *)

\* the coordinates of an input record: both numbers, or one of them null or
\* missing (Undefined stands for a key the record does not have)
CoordChoices ==
    ({Num(v) : v \in Values} \X {Num(v) : v \in Values})
        \cup {<<Null, Num(20)>>, <<Undefined, Num(20)>>,
              <<Num(20), Null>>, <<Num(20), Undefined>>}

\* the record { model, [XKey]: xv, [YKey]: yv }, a key left out when its
\* choice is Undefined
MkRecord(name, xv, yv) ==
    LET withX == IF xv = Undefined THEN [model |-> name]
                 ELSE Put([model |-> name], XKey, xv)
    IN  IF yv = Undefined THEN withX ELSE Put(withX, YKey, yv)

\* record lists of length n; the model names are distinct, as the keys of
\* the model mapping are
RecordLists(n) ==
    {[i \in 1..n |-> MkRecord(ModelNames[i], c[i][1], c[i][2])] :
        c \in [1..n -> CoordChoices]}

\* the scenario of the specification: (1,5), (2,3), (3,4)
ScenarioData ==
    <<MkRecord("m1", Num(1), Num(5)),
      MkRecord("m2", Num(2), Num(3)),
      MkRecord("m3", Num(3), Num(4))>>

\* three points with three distinct x, in every arrangement of y
ChainData ==
    {[i \in 1..3 |-> MkRecord(ModelNames[i], Num(p[i]), Num(q[i]))] :
        p \in {<<3, 1, 2>>, <<2, 3, 1>>}, q \in [1..3 -> 1..3]}

Directions == {<<TRUE, TRUE>>, <<TRUE, FALSE>>, <<FALSE, TRUE>>, <<FALSE, FALSE>>}

InitPareto ==
    /\ data \in (UNION {RecordLists(n) : n \in 0..MaxRecords})
                    \cup {ScenarioData} \cup ChainData
    /\ minimize = <<TRUE, FALSE>>
    /\ frontier = <<>>
    /\ pc = "ready"
    /\ IdleNormalize /\ IdleCurve /\ IdleTable /\ IdleBoard

\* one call getParetoFrontier(data, XKey, YKey, min)
CallGetParetoFrontier ==
    /\ pc = "ready"
    /\ pc' = "getParetoFrontier"
    /\ \E min \in Directions :
        /\ minimize' = min
        /\ frontier' = getParetoFrontier(data, XKey, YKey, min)
        /\ data' = DataAfterGetParetoFrontier(data, XKey, YKey, min)
    /\ UNCHANGED <<normVars, curveVars, tableVars, boardVars>>

\* a second call getParetoFrontier(frontier, XKey, YKey, minimize), on the
\* list the first call returned, with the same keys and directions
ReapplyGetParetoFrontier ==
    /\ pc = "getParetoFrontier"
    /\ pc' = "getParetoFrontier(getParetoFrontier)"
    /\ data' = DataAfterGetParetoFrontier(frontier, XKey, YKey, minimize)
    /\ frontier' = getParetoFrontier(frontier, XKey, YKey, minimize)
    /\ UNCHANGED <<minimize, normVars, curveVars, tableVars, boardVars>>

NextPareto == CallGetParetoFrontier \/ ReapplyGetParetoFrontier

SpecPareto == InitPareto /\ [][NextPareto]_vars

----------------------------------------------------------------------------
(* Inputs of the normalizer: documents *)

\* the object { keys[i]: choices[i] }, a key left out when its choice is
\* Undefined
ObjectOf(keys, choices) ==
    [key \in {keys[i] : i \in {j \in 1..Len(keys) : choices[j] # Undefined}} |->
        choices[CHOOSE i \in 1..Len(keys) : keys[i] = key]]

\* what a metric set holds under a key: nothing, null, 0, or a value
MetricChoices == <<Undefined, Null, Num(0), Num(50)>>

\* metric sets in which every key takes every choice as k varies
RotatedMetrics(k) ==
    ObjectOf(MetricKeys,
             [i \in 1..Len(MetricKeys) |-> MetricChoices[((i + k) % Len(MetricChoices)) + 1]])

\* what average_metrics holds under a key
AverageChoices ==
    <<Undefined, Null, EmptyObj, [mean |-> Null], [mean |-> Num(0)],
      [mean |-> Num(50), std |-> Num(3)]>>

RotatedAverage(k) ==
    ObjectOf(MetricKeys,
             [i \in 1..Len(MetricKeys) |-> AverageChoices[((i + k) % Len(AverageChoices)) + 1]])

\* the scenario of the specification, in hundredths: MAE_total 0.5 and
\* Time_per_step 0.01, the other keys absent
ScenarioMetrics == [c \in {"MAE_total (eV)", "Time_per_step (s)"} |->
                       IF c = "MAE_total (eV)" THEN Num(50) ELSE Num(1)]

\* a metric set that also holds keys named like the reserved record fields
ReservedKeys ==
    <<"adsorbateMigration", "reproductionFailure", "unphysicalRelaxation",
      "energyAnomaly", "amdwt", "AMDwT (%)", "MAE_total (eV)">>
ReservedMetrics == ObjectOf(ReservedKeys, [i \in 1..Len(ReservedKeys) |-> Num(7)])
ReservedAverage == ObjectOf(ReservedKeys, [i \in 1..Len(ReservedKeys) |-> [mean |-> Num(7)]])

\* the model entries the enumerated documents draw from
ModelEntryChoices ==
    <<EmptyObj,
      [datasets |-> EmptyObj],
      [datasets |-> Null, average_metrics |-> Null],
      [datasets |-> [D2 |-> RotatedMetrics(3)]],
      [datasets |-> [D1 |-> Null]],
      [datasets |-> [D1 |-> EmptyObj]],
      [datasets |-> [D1 |-> ScenarioMetrics]],
      [datasets |-> [D1 |-> ReservedMetrics], average_metrics |-> ReservedAverage],
      [datasets |-> [D1 |-> RotatedMetrics(0)], average_metrics |-> RotatedAverage(0)],
      [datasets |-> [D1 |-> RotatedMetrics(1)], average_metrics |-> RotatedAverage(1)],
      [datasets |-> [D1 |-> RotatedMetrics(2), D2 |-> RotatedMetrics(0)],
       average_metrics |-> RotatedAverage(2)],
      [datasets |-> [D1 |-> RotatedMetrics(3)], average_metrics |-> RotatedAverage(3)],
      [average_metrics |-> RotatedAverage(4)],
      [average_metrics |-> RotatedAverage(5)]>>

\* the document { mlips: { name[1]: entry[1], ..., name[n]: entry[n] } }
Document(n, names, c) ==
    [mlips |-> OrderedObj([i \in 1..n |-> <<names[i], ModelEntryChoices[c[i]]>>])]

\* model names in insertion order: ascending or descending
NameOrders(n) == {[i \in 1..n |-> ModelNames[i]], [i \in 1..n |-> ModelNames[n + 1 - i]]}

\* the scenario document: one model M with one dataset
ScenarioDocument == [mlips |-> OrderedObj(<<<<"M", [datasets |-> [D1 |-> ScenarioMetrics]]>>>>)]

\* documents without a model mapping
AbsentDocuments == <<Null, Undefined, EmptyObj, [mlips |-> Null], [datasets |-> EmptyObj]>>

DatasetNames == {"D1", "D2", "D3"}

InitNormalize ==
    /\ pc = "ready"
    /\ \/ \E n \in 0..MaxModels : \E names \in NameOrders(n) :
            \E c \in [1..n -> 1..Len(ModelEntryChoices)] :
                jsonData = Document(n, names, c)
       \/ jsonData = ScenarioDocument
       \/ \E i \in 1..Len(AbsentDocuments) : jsonData = AbsentDocuments[i]
    /\ datasetName = "" /\ models = <<>>
    /\ IdlePareto /\ IdleCurve /\ IdleTable /\ IdleBoard

\* one call transformDataForDataset(jsonData, ds)
CallTransformDataForDataset ==
    /\ pc = "ready"
    /\ \E ds \in DatasetNames :
        /\ datasetName' = ds
        /\ IF transformDataForDatasetThrows(jsonData, ds)
           THEN pc' = "TypeError" /\ models' = models
           ELSE /\ pc' = "transformDataForDataset"
                /\ models' = transformDataForDataset(jsonData, ds)
    /\ UNCHANGED <<jsonData, paretoVars, curveVars, tableVars, boardVars>>

\* one call transformDataForAverage(jsonData)
CallTransformDataForAverage ==
    /\ pc = "ready"
    /\ IF transformDataForAverageThrows(jsonData)
       THEN pc' = "TypeError" /\ models' = models
       ELSE /\ pc' = "transformDataForAverage"
            /\ models' = transformDataForAverage(jsonData)
    /\ UNCHANGED <<jsonData, datasetName, paretoVars, curveVars, tableVars, boardVars>>

NextNormalize == CallTransformDataForDataset \/ CallTransformDataForAverage

SpecNormalize == InitNormalize /\ [][NextNormalize]_vars

----------------------------------------------------------------------------
(* getParetoLineData and getParetoAreaData *)

Infinity == [type |-> "Infinity"]
NaN == [type |-> "NaN"]

\* { [xKey]: xv, [yKey]: yv }
Vertex(xKey, xv, yKey, yv) == Put(Put(EmptyObj, xKey, xv), yKey, yv)

\* a loop body that pushes the corner vertex once
StepSegment_threeVertices(p, q, xKey, yKey) ==
    <<Vertex(xKey, Get(p, xKey), yKey, Get(p, yKey)),
      Vertex(xKey, Get(q, xKey), yKey, Get(p, yKey)),
      Vertex(xKey, Get(q, xKey), yKey, Get(q, yKey))>>

\* the heap when getParetoLineData returns (lines 293-312): the argument
\* is the array cell Len(pData) + 1; the vertices pushed are new objects
\* whose fields are read from the sorted copy
HeapAfterGetParetoLineData(pData, xKey, yKey) ==
    LET given == HeapWith(<<>>, pData)
    IN  IF Len(pData) < 2 THEN given
        ELSE SortedCopy(given, Len(given), xKey)

\* the heap when getParetoAreaData returns (lines 316-356): paretoData is
\* the array cell Len(pData) + 1 and allData the array cell Len(pData) +
\* Len(all) + 2; allData.map(d => d[xKey]) builds a new array of numbers
HeapAfterGetParetoAreaData(pData, xKey, yKey, all) ==
    LET given == HeapWith(HeapWith(<<>>, pData), all)
    IN  IF Len(pData) < 1 THEN given
        ELSE LET sorted == SortedCopy(given, Len(pData) + 1, xKey)
                 xs == [i \in 1..Len(all) |->
                           Get(sorted[sorted[Len(given)].items[i]].value, xKey)]
             IN  Append(sorted, [kind |-> "numbers", items |-> xs])

\* a loop body that joins the two points directly, without the corner
StepSegment_noCorner(p, q, xKey, yKey) ==
    <<Vertex(xKey, Get(p, xKey), yKey, Get(p, yKey)),
      Vertex(xKey, Get(p, xKey), yKey, Get(p, yKey)),
      Vertex(xKey, Get(q, xKey), yKey, Get(q, yKey)),
      Vertex(xKey, Get(q, xKey), yKey, Get(q, yKey))>>

\* a loop body that draws the vertical segment before the horizontal one
StepSegment_verticalFirst(p, q, xKey, yKey) ==
    <<Vertex(xKey, Get(p, xKey), yKey, Get(p, yKey)),
      Vertex(xKey, Get(p, xKey), yKey, Get(q, yKey)),
      Vertex(xKey, Get(p, xKey), yKey, Get(q, yKey)),
      Vertex(xKey, Get(q, xKey), yKey, Get(q, yKey))>>

\* the four pushes of one loop iteration (lines 304-308)
StepSegment(p, q, xKey, yKey) ==
    <<Vertex(xKey, Get(p, xKey), yKey, Get(p, yKey)),
      Vertex(xKey, Get(q, xKey), yKey, Get(p, yKey)),
      Vertex(xKey, Get(q, xKey), yKey, Get(p, yKey)),
      Vertex(xKey, Get(q, xKey), yKey, Get(q, yKey))>>

\* the pushes of the iterations i = 0 .. n-1 of the loop of lines 302-309
RECURSIVE StepSegments(_, _, _, _)
StepSegments(sorted, n, xKey, yKey) ==
    IF n = 0 THEN <<>>
    ELSE StepSegments(sorted, n - 1, xKey, yKey)
            \o StepSegment(sorted[n], sorted[n + 1], xKey, yKey)

getParetoLineData(pData, xKey, yKey) ==
    IF Len(pData) < 2 THEN <<>>
    ELSE LET sorted == SortByKey(pData, xKey)
         IN  <<Vertex(xKey, Get(sorted[1], xKey), yKey, Get(sorted[1], yKey))>>
                 \o StepSegments(sorted, Len(sorted) - 1, xKey, yKey)

\* Math.min(...values): Infinity for no argument, NaN if one is undefined
MathMin(values) ==
    IF values = <<>> THEN Infinity
    ELSE IF \E i \in 1..Len(values) : values[i] = Undefined THEN NaN
    ELSE LET i == CHOOSE j \in 1..Len(values) :
                      \A k \in 1..Len(values) : ToNumber(values[j]) <= ToNumber(values[k])
         IN  Num(ToNumber(values[i]))

\* v * 1.15 and v * 1.1, exact on the multiples of 20 the inputs draw from
Times115(v) == Num((ToNumber(v) * 115) \div 100)
Times110(v) == Num((ToNumber(v) * 110) \div 100)

\* a minimum taken over the frontier instead of allData
AreaMinX_overFrontier(pData, all, xKey) ==
    MathMin([i \in 1..Len(pData) |-> Get(pData[i], xKey)])

\* const minX = Math.min(...allData.map(d => d[xKey]))
AreaMinX(pData, all, xKey) ==
    MathMin([i \in 1..Len(all) |-> Get(all[i], xKey)])

\* topY of line 327, bottomY of line 342
AreaBaseline(mY, isMinY) == IF isMinY THEN Times110(mY) ELSE Num(0)

\* both branches of lines 324-354 push the same path, up to the baseline
getParetoAreaData(pData, xKey, yKey, all, mX, mY, isMinY) ==
    IF Len(pData) < 1 THEN <<>>
    ELSE LET sorted == SortByKey(pData, xKey)
             minX == AreaMinX(pData, all, xKey)
             maxXExtended == Times115(mX)
             baseY == AreaBaseline(mY, isMinY)
         IN  <<Vertex(xKey, minX, yKey, Get(sorted[1], yKey))>>
                 \o [i \in 1..Len(sorted) |->
                        Vertex(xKey, Get(sorted[i], xKey), yKey, Get(sorted[i], yKey))]
                 \o <<Vertex(xKey, maxXExtended, yKey, Get(sorted[Len(sorted)], yKey)),
                      Vertex(xKey, maxXExtended, yKey, baseY),
                      Vertex(xKey, minX, yKey, baseY)>>

----------------------------------------------------------------------------
(* Inputs of the curve and region builders *)

\* a frontier point as getParetoFrontier returns it
FrontierPoint(name, xv, yv) ==
    [model |-> name, timePerStep |-> Num(xv), maeNormal |-> Num(yv),
     x |-> Num(xv), y |-> Num(yv)]

CurveXValues == {20, 40, 60}
CurveYValues == {20, 40}

\* the extents handed in as maxX and maxY
ExtentXValues == {20, 60}
ExtentYValues == {20, 40}

\* point lists of length n, in any order of x
PointLists(n) ==
    {[i \in 1..n |-> FrontierPoint(ModelNames[i], c[i][1], c[i][2])] :
        c \in [1..n -> CurveXValues \X CurveYValues]}

\* the record lists handed in as allData: one or two records
AllDataLists ==
    UNION {{[i \in 1..n |-> MkRecord(ModelNames[i], Num(c[i]), Num(20))] :
               c \in [1..n -> CurveXValues]} : n \in 1..2}

InitCurve ==
    /\ pc = "ready"
    /\ paretoData \in UNION {PointLists(n) : n \in 0..MaxFrontier}
    /\ allData \in AllDataLists
    /\ maxX = NoValue /\ maxY = NoValue /\ isMinimizeY = TRUE
    /\ lineData = <<>> /\ areaData = <<>>
    /\ IdlePareto /\ IdleNormalize /\ IdleTable /\ IdleBoard

\* one call getParetoLineData(paretoData, XKey, YKey)
CallGetParetoLineData ==
    /\ pc = "ready"
    /\ pc' = "getParetoLineData"
    /\ lineData' = getParetoLineData(paretoData, XKey, YKey)
    /\ paretoData' = ListAt(HeapAfterGetParetoLineData(paretoData, XKey, YKey),
                            Len(paretoData) + 1)
    /\ UNCHANGED <<allData, maxX, maxY, isMinimizeY, areaData>>
    /\ UNCHANGED <<paretoVars, normVars, tableVars, boardVars>>

\* one call getParetoAreaData(paretoData, XKey, YKey, all, mX, mY, isMinY)
CallGetParetoAreaData ==
    /\ pc = "ready"
    /\ pc' = "getParetoAreaData"
    /\ \E mX \in ExtentXValues, mY \in ExtentYValues, isMinY \in BOOLEAN :
        /\ maxX' = Num(mX) /\ maxY' = Num(mY)
        /\ isMinimizeY' = isMinY
        /\ areaData' = getParetoAreaData(paretoData, XKey, YKey, allData,
                                         Num(mX), Num(mY), isMinY)
    /\ LET heap == HeapAfterGetParetoAreaData(paretoData, XKey, YKey, allData)
       IN  /\ paretoData' = ListAt(heap, Len(paretoData) + 1)
           /\ allData' = ListAt(heap, Len(paretoData) + Len(allData) + 2)
    /\ UNCHANGED lineData
    /\ UNCHANGED <<paretoVars, normVars, tableVars, boardVars>>

NextCurve == CallGetParetoLineData \/ CallGetParetoAreaData

SpecCurve == InitCurve /\ [][NextCurve]_vars

----------------------------------------------------------------------------
(* getAdsorbateBreakdown and getDatasetMlipAdsorbateBreakdown *)
(* A column name is the sequence of its characters.                        *)

Separator == <<" ", "-", " ">>

\* the least position >= 1 at which sub occurs in str, or 0
IndexOf(str, sub) ==
    LET hits == {i \in 1..(Len(str) - Len(sub) + 1) :
                    SubSeq(str, i, i + Len(sub) - 1) = sub}
    IN  IF hits = {} THEN 0 ELSE CHOOSE i \in hits : \A j \in hits : i <= j

\* str.includes(sub)
Includes(str, sub) == IndexOf(str, sub) # 0

\* str.split(sep), sep not empty
RECURSIVE Split(_, _)
Split(str, sep) ==
    LET i == IndexOf(str, sep)
    IN  IF i = 0 THEN <<str>>
        ELSE <<SubSeq(str, 1, i - 1)>> \o Split(SubSeq(str, i + Len(sep), Len(str)), sep)

\* cleanCol of lines 177-179
CleanCol(col) ==
    IF Includes(col, Separator) /\ Split(col, Separator)[1] = Split(col, Separator)[2]
    THEN Split(col, Separator)[1]
    ELSE col

\* the assignments of lines 180-184 for one column: <<key, value>> in order
ColumnStores(col, v) ==
    IF CleanCol(col) # col
    THEN <<<<CleanCol(col), v>>, <<col, v>>>>
    ELSE <<<<CleanCol(col), v>>>>

\* the assignment of line 145 for one column
PlainColumnStores(col, v) == <<<<col, v>>>>

\* rowObj after the assignments of the first n columns, made in order
RECURSIVE RowObject(_, _)
RowObject(colStores, n) ==
    IF n = 0 THEN EmptyObj
    ELSE LET prev == RowObject(colStores, n - 1)
             w == colStores[n]
         IN  IF Len(w) = 2 THEN Put(Put(prev, w[1][1], w[1][2]), w[2][1], w[2][2])
             ELSE Put(prev, w[1][1], w[1][2])

\* the table entry the breakdown functions project, or Null for the early
\* returns of lines 159-166
DatasetSheet(json, dsName, mlip) ==
    IF ~Truthy(json) \/ ~Truthy(Get(json, "excel_data"))
          \/ ~Truthy(Get(json.excel_data, dsName))
    THEN Null
    ELSE IF ~Truthy(Get(json.excel_data[dsName], mlip)) THEN Null
    ELSE json.excel_data[dsName][mlip]

\* the table entry of lines 133-137
BreakdownSheet(json, mlip) ==
    IF ~Truthy(json) \/ ~Truthy(Get(json, "adsorbate_breakdown"))
          \/ ~Truthy(Get(json.adsorbate_breakdown, mlip))
    THEN Null
    ELSE json.adsorbate_breakdown[mlip]

\* per row and column, the pair <<col, row[idx]>> the forEach visits
SheetCells(mlipData) ==
    LET columns == Or(Get(mlipData, "columns"), Arr(<<>>))
        dataRows == Or(Get(mlipData, "data"), Arr(<<>>))
    IN  [r \in 1..Len(dataRows.items) |->
            [i \in 1..Len(columns.items) |->
                <<columns.items[i], At(dataRows.items[r], i)>>]]

\* whether the projection of a table entry raises: dataRows.map and
\* columns.forEach need arrays, row[idx] needs a row that is not null
SheetThrows(mlipData) ==
    LET columns == Or(Get(mlipData, "columns"), Arr(<<>>))
        dataRows == Or(Get(mlipData, "data"), Arr(<<>>))
    IN  \/ ~IsArray(dataRows)
        \/ Len(dataRows.items) > 0 /\ ~IsArray(columns)
        \/ /\ IsArray(columns) /\ Len(columns.items) > 0
           /\ \E r \in 1..Len(dataRows.items) :
                 Member(dataRows.items[r], "length") = TypeError

\* per row and column, the assignments of lines 175-185
DatasetSheetStores(mlipData) ==
    LET cells == SheetCells(mlipData)
    IN  [r \in 1..Len(cells) |->
            [i \in 1..Len(cells[r]) |-> ColumnStores(cells[r][i][1], cells[r][i][2])]]

\* per row and column, the assignment of lines 144-146
BreakdownSheetStores(mlipData) ==
    LET cells == SheetCells(mlipData)
    IN  [r \in 1..Len(cells) |->
            [i \in 1..Len(cells[r]) |-> PlainColumnStores(cells[r][i][1], cells[r][i][2])]]

\* dataRows.map(row => rowObj)
ProjectedRows(rowStores) ==
    Arr([r \in 1..Len(rowStores) |-> RowObject(rowStores[r], Len(rowStores[r]))])

getDatasetMlipAdsorbateBreakdown(json, dsName, mlip) ==
    IF DatasetSheet(json, dsName, mlip) = Null THEN Null
    ELSE ProjectedRows(DatasetSheetStores(DatasetSheet(json, dsName, mlip)))

\* a projector that gives null for a table entry without columns or data
getAdsorbateBreakdown_nullOnAbsent(json, mlip) ==
    IF BreakdownSheet(json, mlip) = Null THEN Null
    ELSE IF \/ Get(BreakdownSheet(json, mlip), "columns") = Undefined
            \/ Get(BreakdownSheet(json, mlip), "data") = Undefined
         THEN Null
    ELSE ProjectedRows(BreakdownSheetStores(BreakdownSheet(json, mlip)))

getAdsorbateBreakdown(json, mlip) ==
    IF BreakdownSheet(json, mlip) = Null THEN Null
    ELSE ProjectedRows(BreakdownSheetStores(BreakdownSheet(json, mlip)))

getDatasetMlipAdsorbateBreakdownThrows(json, dsName, mlip) ==
    DatasetSheet(json, dsName, mlip) # Null /\ SheetThrows(DatasetSheet(json, dsName, mlip))

getAdsorbateBreakdownThrows(json, mlip) ==
    BreakdownSheet(json, mlip) # Null /\ SheetThrows(BreakdownSheet(json, mlip))

----------------------------------------------------------------------------
(* Inputs of the tabular row projector *)

ColE == <<"E">>
ColF == <<"F">>
ColEE == <<"E", " ", "-", " ", "E">>
ColEF == <<"E", " ", "-", " ", "F">>
ColEEF == <<"E", " ", "-", " ", "E", " ", "-", " ", "F">>
ColEdashE == <<"E", "-", "E">>

\* the column names the enumerated tables draw from
ColumnChoices == <<ColE, ColF, ColEE, ColEF, ColEEF, ColEdashE>>

CellValues == {1, 2}

\* the table with the given column names and one row of the given cells
Table(n, c, cells) ==
    [columns |-> Arr([i \in 1..n |-> ColumnChoices[c[i]]]),
     data |-> Arr(<<Arr([i \in 1..n |-> Num(cells[i])])>>)]

\* the scenario of the specification: columns E, E - E, F and the row 1, 1, 2
ScenarioTable ==
    [columns |-> Arr(<<ColE, ColEE, ColF>>),
     data |-> Arr(<<Arr(<<Num(1), Num(1), Num(2)>>)>>)]

\* tables with no row, with two rows, without columns, without data, and
\* with the three columns E, E - E, E - E - F
OtherTables ==
    <<[columns |-> Arr(<<ColE, ColEE>>), data |-> Arr(<<>>)],
      [columns |-> Arr(<<ColE, ColEE, ColEEF>>),
       data |-> Arr(<<Arr(<<Num(1), Num(2), Num(1)>>)>>)],
      [columns |-> Arr(<<ColEE, ColF>>),
       data |-> Arr(<<Arr(<<Num(1), Num(2)>>), Arr(<<Num(2), Num(1)>>)>>)],
      [data |-> Arr(<<Arr(<<Num(1)>>)>>)],
      [columns |-> Arr(<<ColE>>)],
      EmptyObj>>

\* the document holding one table, under excel_data.D1.m1 and under
\* adsorbate_breakdown.m1
TableDocument(t) ==
    [excel_data |-> [D1 |-> [m1 |-> t]], adsorbate_breakdown |-> [m1 |-> t]]

\* documents without the breakdown structures
AbsentTableDocuments ==
    <<Null, EmptyObj, [excel_data |-> Null, adsorbate_breakdown |-> Null],
      [excel_data |-> EmptyObj, adsorbate_breakdown |-> EmptyObj]>>

InitTable ==
    /\ pc = "ready"
    /\ \/ \E n \in 0..MaxColumns :
            \E c \in [1..n -> 1..Len(ColumnChoices)], cells \in [1..n -> CellValues] :
                jsonData = TableDocument(Table(n, c, cells))
       \/ jsonData = TableDocument(ScenarioTable)
       \/ \E i \in 1..Len(OtherTables) : jsonData = TableDocument(OtherTables[i])
       \/ \E i \in 1..Len(AbsentTableDocuments) : jsonData = AbsentTableDocuments[i]
    /\ datasetName = "" /\ models = <<>>
    /\ IdleTable /\ IdlePareto /\ IdleCurve /\ IdleBoard

\* one call getDatasetMlipAdsorbateBreakdown(jsonData, ds, mlip)
CallGetDatasetMlipAdsorbateBreakdown ==
    /\ pc = "ready"
    /\ \E ds \in {"D1", "D3"}, mlip \in {"m1", "m3"} :
        /\ datasetName' = ds /\ mlipName' = mlip
        /\ IF getDatasetMlipAdsorbateBreakdownThrows(jsonData, ds, mlip)
           THEN pc' = "TypeError" /\ rows' = rows /\ stores' = stores
           ELSE /\ pc' = "getDatasetMlipAdsorbateBreakdown"
                /\ rows' = getDatasetMlipAdsorbateBreakdown(jsonData, ds, mlip)
                /\ stores' = IF DatasetSheet(jsonData, ds, mlip) = Null THEN <<>>
                             ELSE DatasetSheetStores(DatasetSheet(jsonData, ds, mlip))
    /\ UNCHANGED <<jsonData, models, paretoVars, curveVars, boardVars>>

\* one call getAdsorbateBreakdown(jsonData, mlip)
CallGetAdsorbateBreakdown ==
    /\ pc = "ready"
    /\ \E mlip \in {"m1", "m3"} :
        /\ mlipName' = mlip
        /\ IF getAdsorbateBreakdownThrows(jsonData, mlip)
           THEN pc' = "TypeError" /\ rows' = rows /\ stores' = stores
           ELSE /\ pc' = "getAdsorbateBreakdown"
                /\ rows' = getAdsorbateBreakdown(jsonData, mlip)
                /\ stores' = IF BreakdownSheet(jsonData, mlip) = Null THEN <<>>
                             ELSE BreakdownSheetStores(BreakdownSheet(jsonData, mlip))
    /\ UNCHANGED <<jsonData, datasetName, models, paretoVars, curveVars, boardVars>>

NextTable == CallGetDatasetMlipAdsorbateBreakdown \/ CallGetAdsorbateBreakdown

SpecTable == InitTable /\ [][NextTable]_vars

----------------------------------------------------------------------------
(* The four document readers applied to every enumerated document *)

InitDocuments == InitNormalize \/ InitTable

NextDocuments == NextNormalize \/ NextTable

SpecDocuments == InitDocuments /\ [][NextDocuments]_vars

----------------------------------------------------------------------------
(* The frontier, curve and region memos of CatBenchLeaderboard             *)
(* (colorSchemes.js, lines 359-397)                                        *)

NegInfinity == [type |-> "-Infinity"]

\* Math.max(...values): -Infinity for no argument, NaN if one is undefined
MathMax(values) ==
    IF values = <<>> THEN NegInfinity
    ELSE IF \E i \in 1..Len(values) : values[i] = Undefined THEN NaN
    ELSE LET i == CHOOSE j \in 1..Len(values) :
                      \A k \in 1..Len(values) : ToNumber(values[j]) >= ToNumber(values[k])
         IN  Num(ToNumber(values[i]))

paretoAccuracyEfficiency(cur) ==
    getParetoFrontier(cur, "timePerStep", "maeNormal", <<TRUE, TRUE>>)

paretoRobustnessEfficiency(cur) ==
    getParetoFrontier(cur, "timePerStep", "normalRate", <<TRUE, FALSE>>)

paretoAccuracyLineData(accuracyFrontier) ==
    getParetoLineData(accuracyFrontier, "timePerStep", "maeNormal")

paretoRobustnessLineData(robustnessFrontier) ==
    getParetoLineData(robustnessFrontier, "timePerStep", "normalRate")

\* the records of a chart taken without the filter
ChartData_unfiltered(cur, yKey) == cur

\* currentData.filter(d => d[yKey] !== null && d[yKey] !== undefined &&
\*                         d.timePerStep !== null && d.timePerStep !== undefined)
ChartData(cur, yKey) ==
    SelectSeq(cur, LAMBDA d : /\ Get(d, yKey) # Null /\ Get(d, yKey) # Undefined
                              /\ Get(d, "timePerStep") # Null
                              /\ Get(d, "timePerStep") # Undefined)

\* the evaluation of a region memo: the value it returns and the calls of
\* getParetoAreaData it makes, each with its arguments
RegionOf(pData, yKey, chartData, isMinY) ==
    LET maxTime == MathMax([i \in 1..Len(chartData) |-> chartData[i].timePerStep])
        maxOfY == MathMax([i \in 1..Len(chartData) |-> chartData[i][yKey]])
    IN  [value |-> getParetoAreaData(pData, "timePerStep", yKey, chartData,
                                     maxTime, maxOfY, isMinY),
         calls |-> <<[paretoData |-> pData, xKey |-> "timePerStep", yKey |-> yKey,
                      allData |-> chartData, maxX |-> maxTime, maxY |-> maxOfY,
                      isMinimizeY |-> isMinY]>>]

\* a region memo without the early return
paretoAccuracyAreaData_noGuard(accuracyFrontier, cur) ==
    RegionOf(accuracyFrontier, "maeNormal", ChartData(cur, "maeNormal"), TRUE)

\* the memo of lines 379-387
paretoAccuracyAreaData(accuracyFrontier, cur) ==
    IF Len(accuracyFrontier) = 0 THEN [value |-> <<>>, calls |-> <<>>]
    ELSE RegionOf(accuracyFrontier, "maeNormal", ChartData(cur, "maeNormal"), TRUE)

\* the memo of lines 389-397
paretoRobustnessAreaData(robustnessFrontier, cur) ==
    IF Len(robustnessFrontier) = 0 THEN [value |-> <<>>, calls |-> <<>>]
    ELSE RegionOf(robustnessFrontier, "normalRate", ChartData(cur, "normalRate"), FALSE)

\* what a normalized record holds as (timePerStep, maeNormal, normalRate)
BoardChoices ==
    <<<<Num(20), Num(20), Num(40)>>, <<Num(20), Num(40), Num(20)>>,
      <<Num(40), Num(20), Num(20)>>, <<Num(40), Num(40), Num(40)>>,
      <<Null, Num(20), Num(20)>>, <<Num(20), Null, Num(40)>>,
      <<Num(40), Num(20), Null>>, <<Null, Null, Null>>,
      <<Num(20), Num(60), Num(20)>>, <<Num(60), Num(20), Num(60)>>>>

\* a record as transformDataForDataset builds it
BoardRecord(name, c) ==
    DatasetRecord(name, [k \in {"Time_per_step (s)", "MAE_normal (eV)", "Normal rate (%)"} |->
                            IF k = "Time_per_step (s)" THEN BoardChoices[c][1]
                            ELSE IF k = "MAE_normal (eV)" THEN BoardChoices[c][2]
                            ELSE BoardChoices[c][3]])

InitBoard ==
    /\ pc = "mounted"
    /\ \E n \in 0..MaxRecords : \E c \in [1..n -> 1..Len(BoardChoices)] :
          currentData = [i \in 1..n |-> BoardRecord(ModelNames[i], c[i])]
    /\ memos = NoValue /\ areaCalls = <<>>
    /\ IdleApp /\ IdleUi
    /\ IdlePareto /\ IdleNormalize /\ IdleCurve /\ IdleTable

\* one render: the six memos are evaluated on currentData
Render ==
    /\ pc = "mounted"
    /\ pc' = "render"
    /\ LET accuracyFrontier == paretoAccuracyEfficiency(currentData)
           robustnessFrontier == paretoRobustnessEfficiency(currentData)
           accuracyRegion == paretoAccuracyAreaData(accuracyFrontier, currentData)
           robustnessRegion == paretoRobustnessAreaData(robustnessFrontier, currentData)
       IN  /\ memos' = [paretoAccuracyEfficiency |-> accuracyFrontier,
                        paretoRobustnessEfficiency |-> robustnessFrontier,
                        paretoAccuracyLineData |-> paretoAccuracyLineData(accuracyFrontier),
                        paretoRobustnessLineData |-> paretoRobustnessLineData(robustnessFrontier),
                        paretoAccuracyAreaData |-> accuracyRegion.value,
                        paretoRobustnessAreaData |-> robustnessRegion.value]
           /\ areaCalls' = accuracyRegion.calls \o robustnessRegion.calls
    /\ UNCHANGED <<currentData, appVars, uiVars, paretoVars, normVars, curveVars,
                   tableVars>>

NextBoard == Render

SpecBoard == InitBoard /\ [][NextBoard]_vars

\* the three chart functions, each on its own arguments
InitCharts == InitPareto \/ InitCurve

NextCharts == NextPareto \/ NextCurve

SpecCharts == InitCharts /\ [][NextCharts]_vars

\* the region builder called directly and through the memos
InitRegions == InitCurve \/ InitBoard

NextRegions == NextCurve \/ NextBoard

SpecRegions == InitRegions /\ [][NextRegions]_vars

----------------------------------------------------------------------------
(* Text: a string the searches read is the sequence of its characters      *)

\* the characters of the model and dataset names of the enumerated bodies
Characters(name) ==
    CASE name = "m1" -> <<"m", "1">>
      [] name = "M2" -> <<"M", "2">>
      [] name = "D1" -> <<"D", "1">>
      [] name = "FG2023" -> <<"F", "G", "2", "0", "2", "3">>

\* String.prototype.toLowerCase, on the letters the names and queries use
LowerCase(c) ==
    CASE c = "M" -> "m" [] c = "D" -> "d" [] c = "F" -> "f" [] c = "G" -> "g"
      [] OTHER -> c
ToLowerCase(str) == [i \in 1..Len(str) |-> LowerCase(str[i])]

\* String.prototype.trim
RECURSIVE Trim(_)
Trim(str) ==
    IF str = <<>> THEN <<>>
    ELSE IF Head(str) = " " THEN Trim(Tail(str))
    ELSE IF str[Len(str)] = " " THEN Trim(SubSeq(str, 1, Len(str) - 1))
    ELSE str

----------------------------------------------------------------------------
(* The App loader (App.jsx) and the state of CatBenchLeaderboard           *)
(* (colorSchemes.js, lines 169-249 and 525-539)                            *)

\* what App returns: the spinner, the error view, null or the component
AppView_noDataGuard(isLoading, err, json) ==
    IF isLoading THEN "loading"
    ELSE IF Truthy(err) THEN "error"
    ELSE "CatBenchLeaderboard"

AppView(isLoading, err, json) ==
    IF isLoading THEN "loading"
    ELSE IF Truthy(err) THEN "error"
    ELSE IF ~Truthy(json) THEN "null"
    ELSE "CatBenchLeaderboard"

Tabs == <<"overview", "datasets", "documentation">>

\* the delays of the two setTimeout calls of the tab handler
TabDelay == 200
TransitionDelay == 100

\* the delay of the setTimeout call of the row handler (lines 1015-1020)
ScrollDelay == 100

\* the dataset names of the enumerated bodies, ascending in code units
DatasetOrder == <<"D1", "FG2023">>

\* Object.keys(jsonData.datasets).sort()
getAvailableDatasets(json) ==
    IF ~Truthy(json) \/ ~Truthy(Get(json, "datasets")) THEN <<>>
    ELSE SelectSeq(DatasetOrder, LAMBDA d : d \in DOMAIN json.datasets)

allAvailableDatasets(json) ==
    IF ~Truthy(json) THEN <<>> ELSE getAvailableDatasets(json)

availableDatasets(allDatasets, query) ==
    IF Trim(query) = <<>> THEN allDatasets
    ELSE SelectSeq(allDatasets, LAMBDA dataset :
             Includes(ToLowerCase(Characters(dataset)), ToLowerCase(query)))

\* the effect of lines 200-206, run with the state of the last render: the
\* setSelectedDataset updates it queues
DefaultDatasetEffect(tab, datasets, selected) ==
    IF tab = "datasets" /\ Len(datasets) > 0 /\ ~Truthy(selected)
    THEN LET preferred == SelectSeq(datasets, LAMBDA d : d = "MamunHigh2019" \/ d = "FG2023")
         IN  <<Str(IF preferred # <<>> THEN preferred[1] ELSE datasets[1])>>
    ELSE <<>>

\* whether the effect, run after a render with this state, queues an update
EffectQueues(json, tab, selected) ==
    DefaultDatasetEffect(tab,
        availableDatasets(allAvailableDatasets(json), datasetSearchQuery),
        selected) # <<>>

\* the memo currentData
currentDataOf(json, selected) ==
    IF ~Truthy(json) \/ ~Truthy(selected) THEN <<>>
    ELSE transformDataForDataset(json, selected.val)

\* the memo filteredData
filteredDataOf(cur, query) ==
    IF Trim(query) = <<>> THEN cur
    ELSE SelectSeq(cur, LAMBDA row :
             Includes(ToLowerCase(Characters(row.model)), ToLowerCase(query)))

\* the comparator of lines 232-238: positive, negative or zero; the
\* difference of two model names is NaN, which sort takes as zero
CompareRows(a, b, column, direction) ==
    IF column = "model" THEN 0
    ELSE IF a[column] = Null \/ a[column] = Undefined THEN 1
    ELSE IF b[column] = Null \/ b[column] = Undefined THEN -1
    ELSE IF direction = "asc" THEN a[column].val - b[column].val
    ELSE b[column].val - a[column].val

\* a row put behind every row it does not sort before
InsertRow(sorted, row, column, direction) ==
    LET k == Cardinality({i \in 1..Len(sorted) :
                             CompareRows(row, sorted[i], column, direction) >= 0})
    IN  SubSeq(sorted, 1, k) \o <<row>> \o SubSeq(sorted, k + 1, Len(sorted))

RECURSIVE SortRows(_, _, _)
SortRows(list, column, direction) ==
    IF list = <<>> THEN <<>>
    ELSE InsertRow(SortRows(SubSeq(list, 1, Len(list) - 1), column, direction),
                   list[Len(list)], column, direction)

\* the memo sortedData
sortedDataOf(filtered, column, direction) == SortRows(filtered, column, direction)

\* frontier memos fed with the search-filtered records
FrontierRecords_filtered(cur, filtered) == filtered

\* the records the frontier and region memos read: currentData
FrontierRecords(cur, filtered) == cur

\* frontier memos that depend on every state of the component
FrontierStale_always(curStale, filteredStale) == TRUE

\* whether a dependency of the frontier memos changed: [currentData]
FrontierStale(curStale, filteredStale) == curStale

\* the six frontier, curve and region memos evaluated on a list of records
EvaluateMemos(records) ==
    LET accuracyFrontier == paretoAccuracyEfficiency(records)
        robustnessFrontier == paretoRobustnessEfficiency(records)
        accuracyRegion == paretoAccuracyAreaData(accuracyFrontier, records)
        robustnessRegion == paretoRobustnessAreaData(robustnessFrontier, records)
    IN  [memos |-> [paretoAccuracyEfficiency |-> accuracyFrontier,
                    paretoRobustnessEfficiency |-> robustnessFrontier,
                    paretoAccuracyLineData |-> paretoAccuracyLineData(accuracyFrontier),
                    paretoRobustnessLineData |-> paretoRobustnessLineData(robustnessFrontier),
                    paretoAccuracyAreaData |-> accuracyRegion.value,
                    paretoRobustnessAreaData |-> robustnessRegion.value],
         calls |-> accuracyRegion.calls \o robustnessRegion.calls]

ChartMemos ==
    {"paretoAccuracyEfficiency", "paretoRobustnessEfficiency",
     "paretoAccuracyLineData", "paretoRobustnessLineData",
     "paretoAccuracyAreaData", "paretoRobustnessAreaData"}

\* One render of the component with the given state: each memo is
\* evaluated again exactly when one of its dependencies changed.
Rerender(json, selected, query, column, direction) ==
    LET curStale == json # jsonData \/ selected # selectedDataset
        cur == IF curStale THEN currentDataOf(json, selected) ELSE currentData
        filteredStale == curStale \/ query # searchQuery
        filtered == IF filteredStale THEN filteredDataOf(cur, query) ELSE filteredData
        \* filteredData is currentData itself while the query is blank (line
        \* 223): evaluated for another blank query it is the same array
        filteredChanged == \/ curStale
                           \/ /\ query # searchQuery
                              /\ ~(Trim(searchQuery) = <<>> /\ Trim(query) = <<>>)
        sortedStale == filteredChanged \/ column # sortColumn \/ direction # sortDirection
        chartStale == FrontierStale(curStale, filteredStale)
        evaluated == EvaluateMemos(FrontierRecords(cur, filtered))
    IN  /\ selectedDataset' = selected
        /\ currentData' = cur
        /\ filteredData' = filtered
        /\ sortedData' = IF sortedStale THEN sortedDataOf(filtered, column, direction)
                         ELSE sortedData
        /\ memos' = IF chartStale THEN evaluated.memos ELSE memos
        /\ areaCalls' = IF chartStale THEN evaluated.calls ELSE areaCalls
        /\ recomputed' = (IF curStale THEN {"currentData"} ELSE {})
                         \cup (IF chartStale THEN ChartMemos ELSE {})

(* The enumerated fetches *)

\* the message of a rejection of fetch, or of response.json()
RejectionMessages == <<"Failed to fetch", "">>
ParseMessages == <<"Unexpected token < in JSON at position 0">>

\* the metric set of a model in a dataset, by its BoardChoices index
BoardMetrics(c) ==
    [k \in {"Time_per_step (s)", "MAE_normal (eV)", "Normal rate (%)"} |->
        IF k = "Time_per_step (s)" THEN BoardChoices[c][1]
        ELSE IF k = "MAE_normal (eV)" THEN BoardChoices[c][2]
        ELSE BoardChoices[c][3]]

\* the bodies response.json() resolves to
Bodies ==
    <<Null,
      [mlips |-> OrderedObj(<<<<"m1", [datasets |-> [D1 |-> BoardMetrics(2)]]>>>>)],
      [datasets |-> EmptyObj, mlips |-> OrderedObj(<<>>)],
      [datasets |-> [D1 |-> EmptyObj, FG2023 |-> EmptyObj],
       mlips |-> OrderedObj(<<<<"m1", [datasets |-> [D1 |-> BoardMetrics(2),
                                                      FG2023 |-> BoardMetrics(1)]]>>>>)]>>

SearchQueries == <<<<>>, <<"M", "2">>>>

\* the sortable headers (lines 1389, 1395, 1426, 1456)
SortColumns == <<"model", "maeNormal", "normalRate", "timePerStep">>

InitApp ==
    /\ pc = "fetch"
    /\ jsonData = Null /\ loading = TRUE /\ error = Null
    /\ view = AppView(TRUE, Null, Null)
    /\ currentData = <<>> /\ memos = NoValue /\ areaCalls = <<>>
    /\ IdleUi
    /\ datasetName = "" /\ models = <<>>
    /\ IdlePareto /\ IdleCurve /\ IdleTable

\* the handler's own updates default to "no change"
KeepApp == UNCHANGED <<pc, jsonData, loading, error, view>>
KeepOther == UNCHANGED <<datasetName, models, paretoVars, curveVars, tableVars>>

\* the request settles: a rejection, a response that is not ok (both reach
\* the catch of lines 22-26), or a response whose body is then parsed
FetchSettles ==
    /\ pc = "fetch"
    /\ \/ \E i \in 1..Len(RejectionMessages) :
             /\ error' = Str(RejectionMessages[i])
             /\ loading' = FALSE
             /\ pc' = "catch"
             /\ view' = AppView(FALSE, Str(RejectionMessages[i]), jsonData)
       \/ /\ error' = Str("Unable to fetch leaderboard data.")
          /\ loading' = FALSE
          /\ pc' = "catch"
          /\ view' = AppView(FALSE, Str("Unable to fetch leaderboard data."), jsonData)
       \/ /\ pc' = "json"
          /\ UNCHANGED <<error, loading, view>>
    /\ UNCHANGED <<jsonData, currentData, memos, areaCalls, uiVars>>
    /\ KeepOther

\* response.json() settles: a parse failure reaches the catch; a body is
\* stored, and the render that follows mounts the component when App
\* returns it; the effect of the mounted component has yet to run
JsonSettles ==
    /\ pc = "json"
    /\ \/ /\ \E i \in 1..Len(ParseMessages) :
                /\ error' = Str(ParseMessages[i])
                /\ view' = AppView(FALSE, Str(ParseMessages[i]), jsonData)
          /\ loading' = FALSE
          /\ pc' = "catch"
          /\ UNCHANGED <<jsonData, currentData, memos, areaCalls, uiVars>>
       \/ \E i \in 1..Len(Bodies) :
             /\ jsonData' = Bodies[i]
             /\ loading' = FALSE
             /\ pc' = "then"
             /\ view' = AppView(FALSE, error, Bodies[i])
             /\ error' = error
             /\ IF AppView(FALSE, error, Bodies[i]) = "CatBenchLeaderboard"
                THEN /\ Rerender(Bodies[i], selectedDataset, searchQuery,
                                 sortColumn, sortDirection)
                     /\ effectPending' = EffectQueues(Bodies[i], activeTab, selectedDataset)
                     /\ UNCHANGED <<activeTab, sortColumn, sortDirection, selectedModel,
                                    tabTransition, hoveredModel, searchQuery,
                                    datasetSearchQuery, timers, updates, clicked>>
                ELSE UNCHANGED <<currentData, memos, areaCalls, uiVars>>
    /\ KeepOther

\* the component is on screen
Mounted == view = "CatBenchLeaderboard"

\* the content of the datasets tab is on screen (line 803)
DatasetsTabShown == Mounted /\ activeTab = "datasets" /\ ~tabTransition

\* the rankings table is on screen (line 1271, within line 803)
RankingsShown == DatasetsTabShown /\ Len(currentData) > 0

NoUpdates ==
    [activeTab |-> <<>>, tabTransition |-> <<>>,
     selectedDataset |-> <<>>, hoveredModel |-> <<>>]

\* the timers and the queued updates not yet dealt with
Pending ==
    Len(timers) + Len(updates.activeTab) + Len(updates.tabTransition)
    + Len(updates.selectedDataset) + Len(updates.hoveredModel)

\* the value a state holds once its queued updates are rendered
AfterUpdates(queue, value) == IF queue = <<>> THEN value ELSE queue[Len(queue)]

\* the updates the effect queues when it runs now: it reads the state of
\* the last render
PassiveEffects ==
    IF effectPending
    THEN DefaultDatasetEffect(activeTab,
             availableDatasets(allAvailableDatasets(jsonData), datasetSearchQuery),
             selectedDataset)
    ELSE <<>>

\* the queued updates once the pending effect has run
Flushed == [updates EXCEPT !.selectedDataset = @ \o PassiveEffects]

\* the step renders nothing
NoRender ==
    /\ recomputed' = {}
    /\ UNCHANGED <<selectedDataset, currentData, filteredData, sortedData, memos,
                   areaCalls>>

\* A click on a navigation tab (lines 528-538).  The handler reads the
\* activeTab of the last render.  Its updates are rendered at once: the
\* pending effect runs first, the updates queued by timer callbacks, pointer
\* handlers and the effect stay queued, and setTabTransition(true) stays
\* queued behind a queued setTabTransition(false).
ClickTab ==
    /\ Mounted
    /\ Pending < MaxPending
    /\ \E tab \in {Tabs[i] : i \in 1..Len(Tabs)} :
          IF activeTab = tab
          THEN /\ UNCHANGED <<tabTransition, searchQuery, datasetSearchQuery, timers,
                              updates, effectPending, clicked>>
               /\ NoRender
          ELSE /\ tabTransition' = TRUE
               /\ searchQuery' = <<>>
               /\ datasetSearchQuery' = <<>>
               /\ timers' = Append(timers, [delay |-> TabDelay, tab |-> tab])
               /\ updates' = [Flushed EXCEPT !.tabTransition =
                                 IF @ # <<>> THEN Append(@, TRUE) ELSE @]
               /\ effectPending' = FALSE
               /\ clicked' = Str(tab)
               /\ Rerender(jsonData, selectedDataset, <<>>, sortColumn, sortDirection)
    /\ UNCHANGED <<activeTab, sortColumn, sortDirection, selectedModel, hoveredModel>>
    /\ KeepApp /\ KeepOther

\* timers that fire in any order
Due_anyOrder(i) == TRUE

\* the timer can fire next: no timer created before it has a delay as
\* short or shorter
Due(i) == \A j \in 1..(i - 1) : timers[j].delay > timers[i].delay

Without(seq, i) == SubSeq(seq, 1, i - 1) \o SubSeq(seq, i + 1, Len(seq))

\* A timer fires.  The callback of lines 533-538 queues setActiveTab(tab)
\* and starts the inner timer; the callback of line 536 queues
\* setTabTransition(false); the callback of lines 1015-1020 scrolls.  The
\* render comes in a later task (RenderUpdates).
FireTimer ==
    /\ \E i \in 1..Len(timers) :
        /\ Due(i)
        /\ IF "tab" \in DOMAIN timers[i]
           THEN /\ updates' = [updates EXCEPT !.activeTab = Append(@, timers[i].tab)]
                /\ timers' = Append(Without(timers, i), [delay |-> TransitionDelay])
           ELSE IF "callback" \in DOMAIN timers[i]
           THEN /\ updates' = updates
                /\ timers' = Without(timers, i)
           ELSE /\ updates' = [updates EXCEPT !.tabTransition = Append(@, FALSE)]
                /\ timers' = Without(timers, i)
    /\ NoRender
    /\ UNCHANGED <<activeTab, tabTransition, sortColumn, sortDirection,
                   selectedModel, hoveredModel, searchQuery, datasetSearchQuery,
                   effectPending, clicked>>
    /\ KeepApp /\ KeepOther

\* The pending effect of lines 200-206 runs in a task of its own, after
\* the render that changed one of its dependencies: its update is queued
\* and rendered in a later task.
RunEffect ==
    /\ Mounted
    /\ effectPending
    /\ effectPending' = FALSE
    /\ updates' = Flushed
    /\ NoRender
    /\ UNCHANGED <<activeTab, tabTransition, sortColumn, sortDirection,
                   selectedModel, hoveredModel, searchQuery, datasetSearchQuery,
                   timers, clicked>>
    /\ KeepApp /\ KeepOther

\* The render of the queued updates, all in one batch: a pending effect
\* runs first and its update is part of the batch.  The effect is to run
\* again, in a later task, when the render changed activeTab or
\* selectedDataset (line 206; availableDatasets does not change once the
\* component is mounted).
RenderUpdates ==
    /\ Mounted
    /\ updates # NoUpdates
    /\ LET tab == AfterUpdates(Flushed.activeTab, activeTab)
           selected == AfterUpdates(Flushed.selectedDataset, selectedDataset)
       IN  /\ activeTab' = tab
           /\ tabTransition' = AfterUpdates(Flushed.tabTransition, tabTransition)
           /\ hoveredModel' = AfterUpdates(Flushed.hoveredModel, hoveredModel)
           /\ effectPending' = /\ tab # activeTab \/ selected # selectedDataset
                               /\ EffectQueues(jsonData, tab, selected)
           /\ Rerender(jsonData, selected, searchQuery, sortColumn, sortDirection)
    /\ updates' = NoUpdates
    /\ UNCHANGED <<sortColumn, sortDirection, selectedModel, searchQuery,
                   datasetSearchQuery, timers, clicked>>
    /\ KeepApp /\ KeepOther

\* A click on a dataset button (lines 865-869), rendered at once.  The
\* pending effect runs after the handler and before the render, so its
\* update is queued behind that of the click; an update of the click that is
\* behind a queued one is rendered now and again with the queue.
ClickDataset ==
    /\ DatasetsTabShown
    /\ updates.selectedDataset = <<>> \/ Pending < MaxPending
    /\ LET datasets == availableDatasets(allAvailableDatasets(jsonData), datasetSearchQuery)
       IN  \E i \in 1..Len(datasets) :
              /\ updates' = [updates EXCEPT !.selectedDataset =
                                (IF @ # <<>> THEN Append(@, Str(datasets[i])) ELSE @)
                                \o PassiveEffects]
              /\ Rerender(jsonData, Str(datasets[i]), searchQuery, sortColumn,
                          sortDirection)
    /\ effectPending' = FALSE
    /\ UNCHANGED <<activeTab, sortColumn, sortDirection, selectedModel, tabTransition,
                   hoveredModel, searchQuery, datasetSearchQuery, timers, clicked>>
    /\ KeepApp /\ KeepOther

\* typing in the model search box (lines 1315-1330), or clearing it with
\* the button shown while there is a query (lines 1348-1350)
ChangeSearch ==
    /\ RankingsShown /\ Truthy(selectedDataset)
    /\ \E i \in 1..Len(SearchQueries) :
          /\ SearchQueries[i] # searchQuery
          /\ searchQuery' = SearchQueries[i]
          /\ Rerender(jsonData, selectedDataset, SearchQueries[i], sortColumn,
                      sortDirection)
    /\ updates' = Flushed
    /\ effectPending' = FALSE
    /\ UNCHANGED <<activeTab, sortColumn, sortDirection, selectedModel, tabTransition,
                   hoveredModel, datasetSearchQuery, timers, clicked>>
    /\ KeepApp /\ KeepOther

\* handleSort(column), lines 242-249, called by a click on a header of
\* the rankings table
handleSort ==
    /\ RankingsShown
    /\ \E i \in 1..Len(SortColumns) :
          LET column == SortColumns[i]
              direction == IF sortColumn = column
                           THEN (IF sortDirection = "asc" THEN "desc" ELSE "asc")
                           ELSE "asc"
          IN  /\ sortColumn' = column
              /\ sortDirection' = direction
              /\ Rerender(jsonData, selectedDataset, searchQuery, column, direction)
    /\ updates' = Flushed
    /\ effectPending' = FALSE
    /\ UNCHANGED <<activeTab, selectedModel, tabTransition, hoveredModel, searchQuery,
                   datasetSearchQuery, timers, clicked>>
    /\ KeepApp /\ KeepOther

\* The pointer enters or leaves a row of the rankings (lines 1499-1506):
\* the handler queues its update, the render comes in a later task
\* (RenderUpdates).  The pointer leaves the row it entered before it enters
\* a row again, so the value set differs from the last one set.
HoverModel ==
    /\ RankingsShown
    /\ Pending < MaxPending
    /\ \E i \in 1..Len(sortedData) : \E value \in {Str(sortedData[i].model), Null} :
          /\ value # AfterUpdates(updates.hoveredModel, hoveredModel)
          /\ updates' = [updates EXCEPT !.hoveredModel = Append(@, value)]
    /\ NoRender
    /\ UNCHANGED <<activeTab, tabTransition, sortColumn, sortDirection,
                   selectedModel, hoveredModel, searchQuery, datasetSearchQuery,
                   timers, effectPending, clicked>>
    /\ KeepApp /\ KeepOther

\* a click on a row of the comparison table (lines 1011-1021), shown with
\* the dataset details (line 941; showDatasetDetails itself is not tracked):
\* the selection is toggled and the scroll timer is started
SelectModelRow ==
    /\ DatasetsTabShown /\ Truthy(selectedDataset) /\ Len(currentData) > 0
    /\ Pending < MaxPending
    /\ \E i \in 1..Len(sortedData) :
          selectedModel' = IF selectedModel = Str(sortedData[i].model) THEN Null
                           ELSE Str(sortedData[i].model)
    /\ timers' = Append(timers, [delay |-> ScrollDelay, callback |-> "scrollIntoView"])
    /\ updates' = Flushed
    /\ effectPending' = FALSE
    /\ Rerender(jsonData, selectedDataset, searchQuery, sortColumn, sortDirection)
    /\ UNCHANGED <<activeTab, sortColumn, sortDirection, hoveredModel, tabTransition,
                   searchQuery, datasetSearchQuery, clicked>>
    /\ KeepApp /\ KeepOther

\* a click on the view button of a row of the rankings (line 1555), or on
\* the close button of the details of the selected model (line 1616, shown
\* by line 1591 while the model is among the records; line 1079 likewise)
SelectModel ==
    /\ RankingsShown
    /\ \/ \E i \in 1..Len(sortedData) :
             selectedModel' = IF selectedModel = Str(sortedData[i].model) THEN Null
                              ELSE Str(sortedData[i].model)
       \/ /\ Truthy(selectedModel)
          /\ \E i \in 1..Len(currentData) : currentData[i].model = selectedModel.val
          /\ selectedModel' = Null
    /\ updates' = Flushed
    /\ effectPending' = FALSE
    /\ Rerender(jsonData, selectedDataset, searchQuery, sortColumn, sortDirection)
    /\ UNCHANGED <<activeTab, sortColumn, sortDirection, hoveredModel, tabTransition,
                   searchQuery, datasetSearchQuery, timers, clicked>>
    /\ KeepApp /\ KeepOther

NextApp ==
    \/ FetchSettles \/ JsonSettles
    \/ ClickTab \/ FireTimer \/ RunEffect \/ RenderUpdates
    \/ ClickDataset \/ ChangeSearch \/ handleSort \/ HoverModel
    \/ SelectModelRow \/ SelectModel

SpecApp == InitApp /\ [][NextApp]_vars

----------------------------------------------------------------------------
(* Properties of getParetoFrontier, stated on the argument list itself *)

Returned(fn) == pc = fn

\* both coordinates of an input record are present
HasBoth(d) ==
    /\ XKey \in DOMAIN d /\ d[XKey].type = "number"
    /\ YKey \in DOMAIN d /\ d[YKey].type = "number"

QualifyingPositions == {i \in 1..Len(data) : HasBoth(data[i])}

\* the list position of a returned point (model names are distinct)
PositionOf(p) == CHOOSE i \in 1..Len(data) : data[i].model = p.model

\* position j dominates position i: at least as good on both axes, strictly
\* better on one; x is minimized, y is minimized iff minY
DominatesAt(j, i, minY) ==
    LET xj == data[j][XKey].val  xi == data[i][XKey].val
        yj == data[j][YKey].val  yi == data[i][YKey].val
    IN  /\ xj <= xi
        /\ IF minY THEN yj <= yi ELSE yj >= yi
        /\ (xj < xi \/ IF minY THEN yj < yi ELSE yj > yi)

NonDominatedPositions(minY) ==
    {i \in QualifyingPositions :
        ~\E j \in QualifyingPositions : j # i /\ DominatesAt(j, i, minY)}

\* an input record with x and y added
WithXY(d) ==
    [k \in DOMAIN d \cup {"x", "y"} |->
        IF k = "x" THEN d[XKey] ELSE IF k = "y" THEN d[YKey] ELSE d[k]]

\* C1: with x minimized, no returned point is dominated by a qualifying
\* input point at another list position.
C1_NoReturnedPointDominated ==
    (Returned("getParetoFrontier") /\ minimize[1]) =>
        \A k \in 1..Len(frontier) : \A j \in QualifyingPositions :
            j # PositionOf(frontier[k]) =>
                ~DominatesAt(j, PositionOf(frontier[k]), minimize[2])

C1_Witness ==
    /\ Returned("getParetoFrontier") /\ minimize = <<TRUE, TRUE>>
    /\ Len(frontier) >= 2
    /\ Cardinality(QualifyingPositions) > Len(frontier)

\* C2: with x minimized, the output is exactly the non-dominated qualifying
\* input records, each once, each with only x and y added; the scenario
\* (1,5), (2,3), (3,4) under (Minimize, Minimize) gives [(1,5), (2,3)].
C2_ExactlyTheNonDominated ==
    (Returned("getParetoFrontier") /\ minimize[1]) =>
        /\ Len(frontier) = Cardinality(NonDominatedPositions(minimize[2]))
        /\ {frontier[k] : k \in 1..Len(frontier)}
              = {WithXY(data[i]) : i \in NonDominatedPositions(minimize[2])}
        /\ (data = ScenarioData /\ minimize = <<TRUE, TRUE>>) =>
              frontier = <<WithXY(ScenarioData[1]), WithXY(ScenarioData[2])>>

C2_Witness ==
    /\ Returned("getParetoFrontier") /\ minimize = <<TRUE, TRUE>>
    /\ data = ScenarioData
    /\ Len(frontier) = 2

\* C3: the output is ascending in x, and returned points of equal x keep
\* the relative order they have in the input.
C3_SortedStable ==
    Returned("getParetoFrontier") =>
        \A a, b \in 1..Len(frontier) : a < b =>
            /\ frontier[a].x.val <= frontier[b].x.val
            /\ frontier[a].x.val = frontier[b].x.val =>
                  PositionOf(frontier[a]) < PositionOf(frontier[b])

C3_Witness ==
    /\ Returned("getParetoFrontier") /\ minimize[1]
    /\ Len(frontier) = 3
    /\ frontier[1].x = frontier[2].x
    /\ frontier[3].x.val > frontier[1].x.val
    /\ PositionOf(frontier[3]) = 1

\* C4: a record with a null or missing coordinate is never returned and
\* never excludes another: the output is the output for the input without
\* those records.
C4_NullOrMissingExcluded ==
    Returned("getParetoFrontier") =>
        /\ \A k \in 1..Len(frontier) : PositionOf(frontier[k]) \in QualifyingPositions
        /\ frontier = getParetoFrontier(SelectSeq(data, HasBoth), XKey, YKey, minimize)

C4_Witness ==
    /\ Returned("getParetoFrontier")
    /\ \E i \in 1..Len(data) : YKey \notin DOMAIN data[i]
    /\ \E i \in 1..Len(data) : XKey \in DOMAIN data[i] /\ data[i][XKey] = Null
    /\ Len(frontier) = 1

\* C14: when no input record or exactly one qualifies (both coordinates
\* non-null), the output is exactly those records, with x and y added, for
\* every direction pair.
C14_ZeroOrOneQualifying ==
    (Returned("getParetoFrontier") /\ Cardinality(QualifyingPositions) <= 1) =>
        /\ Len(frontier) = Cardinality(QualifyingPositions)
        /\ \A i \in QualifyingPositions : frontier = <<WithXY(data[i])>>

C14_Witness ==
    /\ Returned("getParetoFrontier") /\ minimize = <<TRUE, TRUE>>
    /\ Len(data) = 3
    /\ QualifyingPositions = {2}
    /\ Len(frontier) = 1 /\ frontier[1].model = data[2].model

\* C16 as stated: the output is strictly ascending in x, a.x < b.x for any
\* two consecutive elements, also for inputs holding two records with
\* identical coordinates.
C16_StrictlyAscending ==
    Returned("getParetoFrontier") =>
        \A k \in 1..(Len(frontier) - 1) : frontier[k].x.val < frontier[k + 1].x.val

\* C16 amended: the output is ascending in x, a.x <= b.x for consecutive
\* elements; with x minimized, consecutive elements of equal x have equal y
\* (records with identical coordinates, all of which are returned).
C16_AscendingStrictUnlessIdentical ==
    Returned("getParetoFrontier") =>
        \A k \in 1..(Len(frontier) - 1) :
            /\ frontier[k].x.val <= frontier[k + 1].x.val
            /\ (minimize[1] /\ frontier[k].x = frontier[k + 1].x) =>
                  frontier[k].y = frontier[k + 1].y

C16_Witness ==
    /\ Returned("getParetoFrontier") /\ minimize = <<TRUE, TRUE>>
    /\ Len(frontier) = 3
    /\ frontier[1].x = frontier[2].x /\ frontier[1].y = frontier[2].y
    /\ frontier[2].x.val < frontier[3].x.val
    /\ PositionOf(frontier[3]) = 1

\* position j is at least as good as position i on both axes and strictly
\* better on one, each axis minimized or maximized as the directions say
DominatesUnder(j, i, min) ==
    LET xj == data[j][XKey].val  xi == data[i][XKey].val
        yj == data[j][YKey].val  yi == data[i][YKey].val
        xGood == IF min[1] THEN xj <= xi ELSE xj >= xi
        yGood == IF min[2] THEN yj <= yi ELSE yj >= yi
        xBetter == IF min[1] THEN xj < xi ELSE xj > xi
        yBetter == IF min[2] THEN yj < yi ELSE yj > yi
    IN  xGood /\ yGood /\ (xBetter \/ yBetter)

\* C18: with x maximized, (Maximize, Minimize) and (Maximize, Maximize), a
\* qualifying point is left out iff another qualifying point is at least as
\* good on both axes under the directions and strictly better on one.
C18_SymmetricDominance ==
    (Returned("getParetoFrontier") /\ ~minimize[1]) =>
        {PositionOf(frontier[k]) : k \in 1..Len(frontier)}
            = {i \in QualifyingPositions :
                  ~\E j \in QualifyingPositions :
                        j # i /\ DominatesUnder(j, i, minimize)}

\* C24: with x minimized the output is monotone in y: of two returned
\* points with a.x < b.x, a.y > b.y when y is minimized and a.y < b.y when y
\* is maximized; two returned points of equal x have equal y.
C24_MonotoneInY ==
    (Returned("getParetoFrontier") /\ minimize[1]) =>
        \A a, b \in 1..Len(frontier) :
            /\ frontier[a].x.val < frontier[b].x.val =>
                  IF minimize[2] THEN frontier[a].y.val > frontier[b].y.val
                  ELSE frontier[a].y.val < frontier[b].y.val
            /\ frontier[a].x.val = frontier[b].x.val =>
                  frontier[a].y.val = frontier[b].y.val

C24_Witness ==
    /\ Returned("getParetoFrontier") /\ minimize = <<TRUE, FALSE>>
    /\ Len(frontier) = 3
    /\ frontier[1].x.val < frontier[2].x.val /\ frontier[2].x.val < frontier[3].x.val
    /\ frontier[1].y.val < frontier[2].y.val /\ frontier[2].y.val < frontier[3].y.val

\* C25: getParetoFrontier applied, with the same keys and directions, to a
\* list it returned gives that list again: the same points in the same order.
C25_Idempotent ==
    Returned("getParetoFrontier(getParetoFrontier)") => frontier = data

C25_Witness ==
    /\ Returned("getParetoFrontier(getParetoFrontier)")
    /\ minimize = <<TRUE, TRUE>>
    /\ Len(frontier) = 3
    /\ frontier[1].x = frontier[2].x
    /\ frontier[2].x.val < frontier[3].x.val
    /\ frontier[1].model = "m2" /\ frontier[2].model = "m3"

----------------------------------------------------------------------------
(* Properties of the normalizer, stated on the document itself *)

HasModelMapping == "mlips" \in DOMAIN jsonData /\ jsonData.mlips # Null

\* the entries of the model mapping, in iteration order
SourceEntries == IF HasModelMapping THEN jsonData.mlips.entries ELSE <<>>

\* the model entry stored under a model identifier
EntryOf(name) ==
    LET i == CHOOSE j \in 1..Len(SourceEntries) : SourceEntries[j][1] = name
    IN  SourceEntries[i][2]

\* the metric set a model entry holds for the requested dataset, or Null
MetricSetOf(entry) ==
    IF /\ "datasets" \in DOMAIN entry
       /\ entry.datasets # Null
       /\ datasetName \in DOMAIN entry.datasets
    THEN entry.datasets[datasetName]
    ELSE Null

PopulatedFields == <<"maeTotal", "maeNormal", "normalRate", "adwt", "timePerStep">>

ReservedFields ==
    {"adsorbateMigration", "reproductionFailure", "unphysicalRelaxation",
     "energyAnomaly", "amdwt"}

\* C5: in a dataset view each of the five populated fields is the value
\* under its key when that key is present and non-null, and null otherwise;
\* 0 stays 0; the scenario document yields maeTotal 0.5, timePerStep 0.01
\* and null for the other three.
C5_PopulatedFieldsFromKeys ==
    Returned("transformDataForDataset") =>
        /\ \A k \in 1..Len(models) :
              LET m == MetricSetOf(EntryOf(models[k].model))
              IN  \A i \in 1..Len(MetricKeys) :
                      models[k][PopulatedFields[i]] =
                          IF MetricKeys[i] \in DOMAIN m /\ m[MetricKeys[i]] # Null
                          THEN m[MetricKeys[i]]
                          ELSE Null
        /\ (jsonData = ScenarioDocument /\ datasetName = "D1") =>
              /\ Len(models) = 1
              /\ models[1].model = "M"
              /\ models[1].maeTotal = Num(50) /\ models[1].timePerStep = Num(1)
              /\ models[1].maeNormal = Null /\ models[1].normalRate = Null
              /\ models[1].adwt = Null

C5_Witness ==
    /\ Returned("transformDataForDataset")
    /\ \E k \in 1..Len(models) :
          /\ models[k].maeNormal = Num(0) /\ models[k].normalRate = Num(50)
          /\ models[k].adwt = Null /\ models[k].maeTotal = Null
          /\ "ADwT (%)" \notin DOMAIN MetricSetOf(EntryOf(models[k].model))
          /\ "MAE_total (eV)" \in DOMAIN MetricSetOf(EntryOf(models[k].model))

\* C6: a dataset view holds one record per model that has a metric set for
\* the requested dataset and none for the others, in the iteration order of
\* the model mapping, each with its model identifier.
C6_OneRecordPerModelWithDataset ==
    (Returned("transformDataForDataset") /\ HasModelMapping) =>
        LET having == SelectSeq(SourceEntries, LAMBDA e : MetricSetOf(e[2]) # Null)
        IN  [k \in 1..Len(models) |-> models[k].model]
                = [k \in 1..Len(having) |-> having[k][1]]

C6_Witness ==
    /\ Returned("transformDataForDataset")
    /\ Len(SourceEntries) = 2 /\ Len(models) = 1
    /\ models[1].model = "m1" /\ SourceEntries[1][1] = "m2"

\* C10: every record of either view holds the five reserved keys, each null.
C10_ReservedFieldsNull ==
    (Returned("transformDataForDataset") \/ Returned("transformDataForAverage")) =>
        \A k \in 1..Len(models) : \A f \in ReservedFields :
            f \in DOMAIN models[k] /\ models[k][f] = Null

C10_Witness ==
    /\ Returned("transformDataForDataset")
    /\ \E k \in 1..Len(models) :
          /\ models[k].maeTotal = Num(7)
          /\ MetricSetOf(EntryOf(models[k].model)).adsorbateMigration = Num(7)

\* the average_metrics object of a model entry, or Null when the entry has
\* none
AverageSetOf(entry) ==
    IF "average_metrics" \in DOMAIN entry /\ entry.average_metrics # Null
    THEN entry.average_metrics
    ELSE Null

\* the mean recorded under a key of a model entry's average_metrics, or Null
\* when the entry has no average_metrics, no entry under the key, or an
\* entry without a non-null mean
MeanUnder(entry, key) ==
    LET avg == AverageSetOf(entry)
    IN  IF avg = Null THEN Null
        ELSE IF key \notin DOMAIN avg THEN Null
        ELSE IF avg[key] = Null THEN Null
        ELSE IF "mean" \notin DOMAIN avg[key] THEN Null
        ELSE avg[key].mean

\* C11: in the average view each of the five populated fields is the mean
\* under its key when the entry exists and its mean is non-null, and null
\* when the entry is absent, has no mean, or average_metrics is absent; a
\* model without average_metrics still yields a record, with five nulls.
C11_AverageFieldsFromMeans ==
    Returned("transformDataForAverage") =>
        /\ \A k \in 1..Len(models) :
              \A i \in 1..Len(MetricKeys) :
                  models[k][PopulatedFields[i]]
                      = MeanUnder(EntryOf(models[k].model), MetricKeys[i])
        /\ \A j \in 1..Len(SourceEntries) :
              AverageSetOf(SourceEntries[j][2]) = Null =>
                  \E k \in 1..Len(models) :
                      /\ models[k].model = SourceEntries[j][1]
                      /\ \A i \in 1..Len(PopulatedFields) :
                            models[k][PopulatedFields[i]] = Null

C11_Witness ==
    /\ Returned("transformDataForAverage")
    /\ Len(models) = 2
    /\ AverageSetOf(EntryOf(models[1].model)) = Null
    /\ models[1].maeTotal = Null
    /\ models[2].maeTotal = Num(50)
    /\ models[2].maeNormal = Null /\ models[2].adwt = Null
    /\ models[2].timePerStep = Null
    /\ LET avg == AverageSetOf(EntryOf(models[2].model))
       IN  /\ "MAE_normal (eV)" \notin DOMAIN avg
           /\ "mean" \notin DOMAIN avg["ADwT (%)"]
           /\ avg["Time_per_step (s)"].mean = Null

\* the document lacks adsorbate_breakdown, or the entry of the requested model
LacksBreakdown ==
    \/ "adsorbate_breakdown" \notin DOMAIN jsonData
    \/ jsonData.adsorbate_breakdown = Null
    \/ mlipName \notin DOMAIN jsonData.adsorbate_breakdown

\* the document lacks excel_data, the sheet of the requested dataset, or the
\* entry of the requested model in it
LacksSheet ==
    \/ "excel_data" \notin DOMAIN jsonData
    \/ jsonData.excel_data = Null
    \/ datasetName \notin DOMAIN jsonData.excel_data
    \/ mlipName \notin DOMAIN jsonData.excel_data[datasetName]

\* C12: no call on an absent input raises; a null document, {} and a
\* document without model mapping give an empty list in both views; a
\* document lacking adsorbate_breakdown, excel_data, the dataset sheet or the
\* model entry gives null from both breakdown functions; model entries
\* lacking datasets or average_metrics are handled without raising.
C12_AbsentInputNeverRaises ==
    /\ pc # "TypeError"
    /\ ((Returned("transformDataForDataset") \/ Returned("transformDataForAverage"))
            /\ ~HasModelMapping) => models = <<>>
    /\ (Returned("getAdsorbateBreakdown") /\ LacksBreakdown) => rows = Null
    /\ (Returned("getDatasetMlipAdsorbateBreakdown") /\ LacksSheet) => rows = Null

C12_Witness ==
    /\ Returned("transformDataForDataset")
    /\ Len(SourceEntries) = 2 /\ Len(models) = 1
    /\ "datasets" \notin DOMAIN SourceEntries[1][2]
    /\ "average_metrics" \notin DOMAIN SourceEntries[2][2]

\* the number of output records that carry a model identifier
RecordsOf(name) == Cardinality({k \in 1..Len(models) : models[k].model = name})

\* C17 as stated: for every document and view, the output holds exactly one
\* record per model of the model mapping.
C17_OneRecordPerModel ==
    (Returned("transformDataForDataset") \/ Returned("transformDataForAverage")) =>
        /\ Len(models) = Len(SourceEntries)
        /\ \A j \in 1..Len(SourceEntries) : RecordsOf(SourceEntries[j][1]) = 1

\* C17 amended: the average view holds exactly one record per model of the
\* mapping, in mapping order; a dataset view holds exactly one record for a
\* model that has a metric set for the requested dataset and none for a
\* model that has not.
C17_OneRecordPerModelInAverageView ==
    /\ Returned("transformDataForAverage") =>
          [k \in 1..Len(models) |-> models[k].model]
              = [j \in 1..Len(SourceEntries) |-> SourceEntries[j][1]]
    /\ Returned("transformDataForDataset") =>
          /\ \A j \in 1..Len(SourceEntries) :
                RecordsOf(SourceEntries[j][1])
                    = IF MetricSetOf(SourceEntries[j][2]) # Null THEN 1 ELSE 0
          /\ Len(models) <= Len(SourceEntries)

C17_Witness ==
    /\ Returned("transformDataForAverage")
    /\ Len(SourceEntries) = 2 /\ Len(models) = 2
    /\ SourceEntries[1][2] = EmptyObj
    /\ models[1].model = "m2" /\ models[2].model = "m1"

----------------------------------------------------------------------------
(* Properties of the curve and region builders *)

\* C8: the step curve has 4*(n-1)+1 vertices for n >= 2 frontier points and
\* none for n < 2.
C8_LineVertexCount ==
    Returned("getParetoLineData") =>
        Len(lineData) = IF Len(paretoData) >= 2
                        THEN 4 * (Len(paretoData) - 1) + 1
                        ELSE 0

C8_Witness ==
    /\ Returned("getParetoLineData")
    /\ Len(paretoData) = 3
    /\ Len(lineData) = 9

\* the least x among allData
MinXOfAllData ==
    LET i == CHOOSE j \in 1..Len(allData) :
                 \A k \in 1..Len(allData) : allData[j][XKey].val <= allData[k][XKey].val
    IN  allData[i][XKey]

\* B: 1.10 * maxY when y is minimized, 0 otherwise
IsBaseline(v) ==
    IF isMinimizeY THEN 100 * v.val = 110 * maxY.val ELSE v = Num(0)

IsExtendedMaxX(v) == 100 * v.val = 115 * maxX.val

\* the vertex of a point: its two coordinates, nothing else
VertexOf(p) == [timePerStep |-> p[XKey], maeNormal |-> p[YKey]]

\* the number of positions of a list that hold a given element
Occurrences(list, e) == Cardinality({i \in 1..Len(list) : list[i] = e})

IsAscending(list) ==
    \A i \in 1..Len(list) - 1 : list[i][XKey].val <= list[i + 1][XKey].val

\* C9: for a non-empty frontier of n points the region is the n+4 vertices
\* (minX, f[0].y), the frontier points in ascending x, (1.15*maxX, f[last].y),
\* (1.15*maxX, B), (minX, B), with minX taken over allData.
C9_AreaPath ==
    (Returned("getParetoAreaData") /\ Len(paretoData) >= 1) =>
        LET n == Len(paretoData)
            middle == [i \in 1..n |-> areaData[i + 1]]
        IN  /\ Len(areaData) = n + 4
            /\ IsAscending(middle)
            /\ \A i \in 1..n :
                  Occurrences(middle, VertexOf(paretoData[i]))
                      = Occurrences([k \in 1..n |-> VertexOf(paretoData[k])],
                                    VertexOf(paretoData[i]))
            /\ IsAscending(paretoData) => middle = [k \in 1..n |-> VertexOf(paretoData[k])]
            /\ areaData[1] = [timePerStep |-> MinXOfAllData, maeNormal |-> middle[1][YKey]]
            /\ IsExtendedMaxX(areaData[n + 2][XKey])
            /\ areaData[n + 2][YKey] = middle[n][YKey]
            /\ IsExtendedMaxX(areaData[n + 3][XKey])
            /\ IsBaseline(areaData[n + 3][YKey])
            /\ areaData[n + 4][XKey] = MinXOfAllData
            /\ IsBaseline(areaData[n + 4][YKey])
            /\ \A i \in 1..(n + 4) : DOMAIN areaData[i] = {XKey, YKey}

C9_Witness ==
    /\ Returned("getParetoAreaData")
    /\ Len(paretoData) = 2
    /\ ~isMinimizeY
    /\ MinXOfAllData.val < paretoData[1][XKey].val
    /\ MinXOfAllData.val < paretoData[2][XKey].val
    /\ Len(areaData) = 6

\* C15: getParetoAreaData gives the empty list for an empty frontier, and a
\* region memo whose frontier is empty gives the empty list without calling
\* getParetoAreaData.
C15_EmptyFrontierEmptyRegion ==
    /\ (Returned("getParetoAreaData") /\ Len(paretoData) = 0) => areaData = <<>>
    /\ Returned("render") =>
          /\ Len(memos.paretoAccuracyEfficiency) = 0 =>
                /\ memos.paretoAccuracyAreaData = <<>>
                /\ \A k \in 1..Len(areaCalls) : areaCalls[k].yKey # "maeNormal"
          /\ Len(memos.paretoRobustnessEfficiency) = 0 =>
                /\ memos.paretoRobustnessAreaData = <<>>
                /\ \A k \in 1..Len(areaCalls) : areaCalls[k].yKey # "normalRate"

C15_Witness ==
    /\ Returned("render")
    /\ Len(currentData) = 2
    /\ Len(memos.paretoAccuracyEfficiency) = 0
    /\ Len(memos.paretoRobustnessEfficiency) = 2
    /\ Len(areaCalls) = 1 /\ areaCalls[1].yKey = "normalRate"
    /\ Len(memos.paretoRobustnessAreaData) = 6

\* the frontier handed to the curve builder, in ascending x
SortedParetoData == SortByKey(paretoData, XKey)

\* the corner between two consecutive points p, q: (q.x, p.y)
CornerOf(p, q) == [timePerStep |-> q[XKey], maeNormal |-> p[YKey]]

\* C20 as stated: the curve is the first point of the x-sorted frontier and
\* then, per consecutive pair (p, q), exactly three vertices: (p.x, p.y),
\* (q.x, p.y), (q.x, q.y).
C20_ThreeVerticesPerPair ==
    (Returned("getParetoLineData") /\ Len(paretoData) >= 2) =>
        LET sorted == SortedParetoData
        IN  /\ Len(lineData) = 3 * (Len(sorted) - 1) + 1
            /\ lineData[1] = VertexOf(sorted[1])
            /\ \A i \in 1..(Len(sorted) - 1) :
                  /\ lineData[3 * (i - 1) + 2] = VertexOf(sorted[i])
                  /\ lineData[3 * (i - 1) + 3] = CornerOf(sorted[i], sorted[i + 1])
                  /\ lineData[3 * (i - 1) + 4] = VertexOf(sorted[i + 1])

\* C20 amended: the curve is the first point of the x-sorted frontier and
\* then, per consecutive pair (p, q), exactly four vertices: (p.x, p.y),
\* (q.x, p.y), (q.x, p.y) again, (q.x, q.y).
C20_FourVerticesPerPair ==
    (Returned("getParetoLineData") /\ Len(paretoData) >= 2) =>
        LET sorted == SortedParetoData
        IN  /\ Len(lineData) = 4 * (Len(sorted) - 1) + 1
            /\ lineData[1] = VertexOf(sorted[1])
            /\ \A i \in 1..(Len(sorted) - 1) :
                  /\ lineData[4 * (i - 1) + 2] = VertexOf(sorted[i])
                  /\ lineData[4 * (i - 1) + 3] = CornerOf(sorted[i], sorted[i + 1])
                  /\ lineData[4 * (i - 1) + 4] = CornerOf(sorted[i], sorted[i + 1])
                  /\ lineData[4 * (i - 1) + 5] = VertexOf(sorted[i + 1])

C20_Witness ==
    /\ Returned("getParetoLineData")
    /\ Len(paretoData) = 2
    /\ paretoData[1][XKey].val > paretoData[2][XKey].val
    /\ paretoData[1][YKey] # paretoData[2][YKey]
    /\ Len(lineData) = 5
    /\ lineData[3] = lineData[4] /\ lineData[3] = CornerOf(paretoData[2], paretoData[1])

\* C21: for a frontier of n >= 2 points in any order the curve is a
\* right-angle staircase: it starts at a frontier point of lowest x, ends at a
\* frontier point of highest x, consecutive vertices differ in at most one
\* coordinate, and a vertex holds the two coordinate keys only.
C21_RightAngleStaircase ==
    (Returned("getParetoLineData") /\ Len(paretoData) >= 2) =>
        LET n == Len(paretoData)
            last == Len(lineData)
        IN  /\ \E i \in 1..n :
                  /\ lineData[1] = VertexOf(paretoData[i])
                  /\ \A k \in 1..n : paretoData[i][XKey].val <= paretoData[k][XKey].val
            /\ \E i \in 1..n :
                  /\ lineData[last] = VertexOf(paretoData[i])
                  /\ \A k \in 1..n : paretoData[i][XKey].val >= paretoData[k][XKey].val
            /\ \A v \in 1..(last - 1) :
                  \/ lineData[v][XKey] = lineData[v + 1][XKey]
                  \/ lineData[v][YKey] = lineData[v + 1][YKey]
            /\ \A v \in 1..last : DOMAIN lineData[v] = {XKey, YKey}

C21_Witness ==
    /\ Returned("getParetoLineData")
    /\ Len(paretoData) = 3
    /\ paretoData[1][XKey] = Num(40) /\ paretoData[2][XKey] = Num(60)
    /\ paretoData[3][XKey] = Num(20)
    /\ paretoData[3][YKey] # paretoData[1][YKey]
    /\ lineData[1] = VertexOf(paretoData[3])
    /\ lineData[Len(lineData)] = VertexOf(paretoData[2])

\* C23: a call of getParetoFrontier, getParetoLineData or getParetoAreaData
\* leaves its arguments as they were: the record list `data`, the frontier
\* `paretoData` and the record list `allData` hold, when the call returns,
\* the same records in the same order, each with the same fields and
\* values; so does the frontier handed to a second call of
\* getParetoFrontier.  What the calls return is built apart from the
\* arguments: the frontier is the new array of the new records that carry
\* x and y, and the curve starts at the first record of the sorted copy.
C23_InputsNotMutated ==
    /\ [][(pc = "ready" /\ pc' \in {"getParetoFrontier", "getParetoLineData",
                                     "getParetoAreaData"})
            => (data' = data /\ paretoData' = paretoData /\ allData' = allData)]_vars
    /\ [][(pc' = "getParetoFrontier(getParetoFrontier)") => data' = frontier]_vars
    /\ [](Returned("getParetoFrontier") =>
            LET heap == HeapAfterGetParetoFrontier(data, XKey, YKey, minimize)
            IN  /\ frontier = ListAt(heap, Len(heap))
                /\ \A i \in 1..Len(heap[Len(heap)].items) :
                       heap[Len(heap)].items[i] > Len(data) + 1)
    /\ [](Returned("getParetoLineData") /\ Len(paretoData) >= 2 =>
            LET heap == HeapAfterGetParetoLineData(paretoData, XKey, YKey)
            IN  /\ Len(heap) = Len(paretoData) + 2
                /\ ListAt(heap, Len(heap)) = SortByKey(paretoData, XKey)
                /\ lineData[1] = VertexOf(ListAt(heap, Len(heap))[1]))

\* getParetoAreaData has returned the region of a frontier and of a record
\* list that were both handed in out of order
C23_Witness ==
    /\ Returned("getParetoAreaData")
    /\ Len(paretoData) = 3
    /\ paretoData[1][XKey] = Num(60) /\ paretoData[2][XKey] = Num(40)
    /\ paretoData[3][XKey] = Num(20)
    /\ Len(allData) = 2
    /\ allData[1][XKey] = Num(40) /\ allData[2][XKey] = Num(20)
    /\ areaData[1][XKey] = Num(20)
    /\ areaData[2] = VertexOf(paretoData[3])

\* a vertex is at least as good as a frontier point on both axes and
\* strictly better on one; x is minimized, y is minimized iff minY
VertexDominates(v, p, yKey, minY) ==
    LET vx == v.timePerStep.val  px == p.timePerStep.val
        vy == v[yKey].val        py == p[yKey].val
    IN  /\ vx <= px
        /\ IF minY THEN vy <= py ELSE vy >= py
        /\ (vx < px \/ IF minY THEN vy < py ELSE vy > py)

\* C27: no vertex of the step curve built from a frontier that
\* getParetoFrontier returned for (Minimize, Minimize) or (Minimize, Maximize)
\* dominates a point of that frontier under the same directions.
C27_CurveOnDominatedSide ==
    Returned("render") =>
        /\ \A v \in 1..Len(memos.paretoAccuracyLineData) :
              \A k \in 1..Len(memos.paretoAccuracyEfficiency) :
                  ~VertexDominates(memos.paretoAccuracyLineData[v],
                                   memos.paretoAccuracyEfficiency[k], "maeNormal", TRUE)
        /\ \A v \in 1..Len(memos.paretoRobustnessLineData) :
              \A k \in 1..Len(memos.paretoRobustnessEfficiency) :
                  ~VertexDominates(memos.paretoRobustnessLineData[v],
                                   memos.paretoRobustnessEfficiency[k], "normalRate", FALSE)

C27_Witness ==
    /\ Returned("render")
    /\ Len(memos.paretoAccuracyEfficiency) = 3
    /\ Len(memos.paretoAccuracyLineData) = 9
    /\ Len(memos.paretoRobustnessEfficiency) = 3
    /\ memos.paretoRobustnessLineData[3].normalRate
          # memos.paretoRobustnessLineData[5].normalRate

\* the positions of currentData whose record holds both coordinates of a chart
WithBothCoordinates(yKey) ==
    {i \in 1..Len(currentData) :
        currentData[i].timePerStep # Null /\ currentData[i][yKey] # Null}

\* the frontier of a chart is non-empty when a record holds both coordinates,
\* its first point has the least x among those records, and the first two
\* vertices of its region are that point
FirstPointAtMinX(chartFrontier, chartRegion, yKey) ==
    /\ WithBothCoordinates(yKey) # {} => Len(chartFrontier) >= 1
    /\ Len(chartFrontier) >= 1 =>
          /\ \A i \in WithBothCoordinates(yKey) :
                chartFrontier[1].timePerStep.val <= currentData[i].timePerStep.val
          /\ chartRegion[1] = chartRegion[2]
          /\ chartRegion[1].timePerStep = chartFrontier[1].timePerStep
          /\ chartRegion[1][yKey] = chartFrontier[1][yKey]

\* C26: in the component's wiring, for both charts, the frontier is
\* non-empty whenever a record has both coordinates, its first point has x
\* equal to the least x of those records, and so the first two vertices of
\* the region are the same point.
C26_RegionStartsAtFirstPoint ==
    Returned("render") =>
        /\ FirstPointAtMinX(memos.paretoAccuracyEfficiency,
                            memos.paretoAccuracyAreaData, "maeNormal")
        /\ FirstPointAtMinX(memos.paretoRobustnessEfficiency,
                            memos.paretoRobustnessAreaData, "normalRate")

C26_Witness ==
    /\ Returned("render")
    /\ Len(currentData) = 3
    /\ Cardinality(WithBothCoordinates("maeNormal")) = 2
    /\ currentData[1].timePerStep = Null
    /\ Len(memos.paretoAccuracyEfficiency) = 2
    /\ memos.paretoAccuracyEfficiency[1].model = "m3"
    /\ memos.paretoAccuracyAreaData[1] = memos.paretoAccuracyAreaData[2]

----------------------------------------------------------------------------
(* Properties of the tabular row projector *)

\* the table the call projected
ProjectedTable == jsonData.excel_data[datasetName][mlipName]

\* either breakdown function has returned
ReturnedBreakdown ==
    Returned("getAdsorbateBreakdown") \/ Returned("getDatasetMlipAdsorbateBreakdown")

\* the document holds a table entry for the call's arguments
HasTableEntry ==
    IF Returned("getAdsorbateBreakdown") THEN ~LacksBreakdown ELSE ~LacksSheet

\* that table entry
TableEntry ==
    IF Returned("getAdsorbateBreakdown")
    THEN jsonData.adsorbate_breakdown[mlipName]
    ELSE jsonData.excel_data[datasetName][mlipName]

\* C13 as stated: a table entry that exists but lacks its columns or its
\* data array gives null from both functions, an empty table gives an empty
\* array.
C13_NullWhenColumnsOrDataAbsent ==
    (ReturnedBreakdown /\ HasTableEntry) =>
        IF "columns" \notin DOMAIN TableEntry \/ "data" \notin DOMAIN TableEntry
        THEN rows = Null
        ELSE Len(TableEntry.data.items) = 0 => rows = Arr(<<>>)

\* C13 amended: a table entry that exists always gives an array, with one
\* row object per data row: none when data is absent, each of them empty
\* when columns is absent; null is returned exactly when the entry is absent.
C13_AbsentColumnsOrDataAsEmpty ==
    ReturnedBreakdown =>
        IF HasTableEntry
        THEN /\ IsArray(rows)
             /\ Len(rows.items) = IF "data" \in DOMAIN TableEntry
                                  THEN Len(TableEntry.data.items)
                                  ELSE 0
             /\ "columns" \notin DOMAIN TableEntry =>
                   \A r \in 1..Len(rows.items) : rows.items[r] = EmptyObj
        ELSE rows = Null

C13_Witness ==
    /\ Returned("getAdsorbateBreakdown")
    /\ HasTableEntry
    /\ "columns" \notin DOMAIN TableEntry /\ "data" \in DOMAIN TableEntry
    /\ rows = Arr(<<EmptyObj>>)

\* a column name of the form A - A: both halves around the separator equal
IsDoubled(col) ==
    \E k \in 0..Len(col) : col = SubSeq(col, 1, k) \o Separator \o SubSeq(col, 1, k)

HalfOf(col) == SubSeq(col, 1, (Len(col) - Len(Separator)) \div 2)

\* the column names of the projected table entry
EntryColumns == IF "columns" \in DOMAIN TableEntry THEN TableEntry.columns.items ELSE <<>>

\* C19: both projections resolve collapsed column names: for a column named
\* A - A every row object of either function holds the key A, and the two
\* functions return equal row objects for the same table.
C19_BothProjectorsCollapse ==
    (ReturnedBreakdown /\ HasTableEntry) =>
        /\ \A r \in 1..Len(rows.items) : \A i \in 1..Len(EntryColumns) :
              IsDoubled(EntryColumns[i]) =>
                  HalfOf(EntryColumns[i]) \in DOMAIN rows.items[r]
        /\ rows = IF Returned("getAdsorbateBreakdown")
                  THEN getDatasetMlipAdsorbateBreakdown(jsonData, "D1", mlipName)
                  ELSE getAdsorbateBreakdown(jsonData, mlipName)

\* the cell of row r under column i of the projected table entry
EntryCell(r, i) == TableEntry.data.items[r].items[i]

\* column i is the only column of its name
OnlyColumnNamed(i) ==
    \A k \in 1..Len(EntryColumns) : EntryColumns[k] = EntryColumns[i] => k = i

\* C28: when a table has a column A and a column A - A and a row holds
\* different values for them, the row object of getDatasetMlipAdsorbateBreakdown
\* holds under A the value of the later of the two columns and under A - A
\* the value of the column A - A.
C28_LastWriteWins ==
    (Returned("getDatasetMlipAdsorbateBreakdown") /\ HasTableEntry
        /\ "data" \in DOMAIN TableEntry) =>
        \A i, j \in 1..Len(EntryColumns) :
            (/\ IsDoubled(EntryColumns[i]) /\ EntryColumns[j] = HalfOf(EntryColumns[i])
             /\ OnlyColumnNamed(i) /\ OnlyColumnNamed(j)) =>
                \A r \in 1..Len(rows.items) :
                    EntryCell(r, i) # EntryCell(r, j) =>
                        /\ rows.items[r][EntryColumns[j]]
                              = EntryCell(r, IF i > j THEN i ELSE j)
                        /\ rows.items[r][EntryColumns[i]] = EntryCell(r, i)

\* C7: the value of a column named A - A is stored under A and under
\* A - A; the value of any other column is stored once, under the column
\* name; columns E, E - E, F with the row 1, 1, 2 give E: 1, F: 2, E - E: 1.
C7_DoubledColumnsStoredTwice ==
    (Returned("getDatasetMlipAdsorbateBreakdown") /\ rows # Null) =>
        /\ \A r \in 1..Len(stores) : \A i \in 1..Len(stores[r]) :
              LET col == ProjectedTable.columns.items[i]
                  v == ProjectedTable.data.items[r].items[i]
                  made == stores[r][i]
              IN  IF IsDoubled(col)
                  THEN /\ Len(made) = 2
                       /\ {made[1], made[2]} = {<<HalfOf(col), v>>, <<col, v>>}
                  ELSE made = <<<<col, v>>>>
        /\ ProjectedTable = ScenarioTable =>
              /\ Len(rows.items) = 1
              /\ rows.items[1][ColE] = Num(1)
              /\ rows.items[1][ColF] = Num(2)
              /\ rows.items[1][ColEE] = Num(1)

----------------------------------------------------------------------------
(* The component: memo recomputation, the tab handler, the loader *)

\* a step changes the model search query, the sort column or direction, the
\* hovered or selected model, or the active tab
UiChange ==
    \/ searchQuery' # searchQuery
    \/ sortColumn' # sortColumn \/ sortDirection' # sortDirection
    \/ hoveredModel' # hoveredModel \/ selectedModel' # selectedModel
    \/ activeTab' # activeTab

\* a step evaluates or changes the normalized records or one of the six
\* frontier, curve and region memos
ChartChange ==
    \/ recomputed' \cap ({"currentData"} \cup ChartMemos) # {}
    \/ currentData' # currentData
    \/ memos' # memos

\* the memos hold what they evaluate to on all records of the selected
\* dataset
ChartsOverSelectedDataset ==
    Mounted =>
        /\ currentData = currentDataOf(jsonData, selectedDataset)
        /\ memos = EvaluateMemos(currentData).memos

\* C22: the normalized records and the six memos are recomputed only in
\* a step that changes the document or the selected dataset; every step
\* that changes the search query, the sort column or direction, the hovered
\* or selected model or the active tab and not the document or the selected
\* dataset leaves all of them unchanged and evaluates none of them; the
\* frontiers are computed over all records of the selected dataset.
C22_UnchangedUnlessDatasetSelected ==
    /\ [][ChartChange => (jsonData' # jsonData \/ selectedDataset' # selectedDataset)]_vars
    /\ [][(UiChange /\ jsonData' = jsonData /\ selectedDataset' = selectedDataset) =>
            /\ recomputed' = {}
            /\ currentData' = currentData /\ memos' = memos]_vars
    /\ []ChartsOverSelectedDataset

\* a search has just hidden the record of the frontier, and its render
\* evaluated neither the normalized records nor a frontier memo
C22_Witness ==
    /\ Mounted
    /\ searchQuery = <<"M", "2">>
    /\ Len(filteredData) < Len(currentData)
    /\ Len(memos.paretoAccuracyEfficiency) = 1
    /\ recomputed = {}

\* the step is a click the tab handler did not ignore: it starts a timer
StartsTimer ==
    /\ Len(timers') > Len(timers)
    /\ "tab" \in DOMAIN timers'[Len(timers')]

\* C29: whatever the clicks on the navigation tabs, once every pending
\* timer has fired and its update is rendered activeTab is the tab of the last click that was not
\* ignored (the initial tab if there was none) and tabTransition is false;
\* a click is not ignored exactly when its tab differs from activeTab, and
\* each such click empties the model search query and the dataset search
\* query.
C29_TabsSettleOnLastClick ==
    /\ []((Mounted /\ timers = <<>> /\ updates = NoUpdates) =>
            /\ activeTab = (IF clicked = Null THEN "overview" ELSE clicked.val)
            /\ ~tabTransition)
    /\ [][StartsTimer =>
            /\ timers'[Len(timers')] = [delay |-> TabDelay, tab |-> clicked'.val]
            /\ clicked'.val # activeTab
            /\ searchQuery' = <<>> /\ datasetSearchQuery' = <<>>]_vars
    /\ [][(clicked' # clicked \/ (tabTransition' /\ ~tabTransition)) => StartsTimer]_vars

\* clicks went to the datasets tab and back, every timer has fired
C29_Witness ==
    /\ Mounted /\ timers = <<>> /\ updates = NoUpdates
    /\ Truthy(selectedDataset)
    /\ clicked = Str("overview") /\ activeTab = "overview"
    /\ ~tabTransition

\* the promise chain of the fetch has settled
Settled == pc \in {"then", "catch"}

\* C30: the loader starts with loading = true, data = null, error = null;
\* when the fetch settles loading becomes false and never becomes true
\* again; error is non-null exactly when the request rejected, the response
\* was not ok or the body failed to parse, and data is set only otherwise;
\* the component is rendered only where loading is false, error is null and
\* data is non-null.
C30_LoaderSettlesOnce ==
    /\ (loading = TRUE /\ jsonData = Null /\ error = Null)
    /\ [](loading <=> ~Settled)
    /\ [][~loading => ~loading']_vars
    /\ [](error # Null <=> pc = "catch")
    /\ [](jsonData # Null => pc = "then")
    /\ [][jsonData' # jsonData => (pc = "json" /\ pc' = "then")]_vars
    /\ [](Mounted => (~loading /\ error = Null /\ jsonData # Null))

\* the body was parsed and stored, and App returned the component
C30_Witness ==
    /\ pc = "then" /\ ~loading /\ error = Null
    /\ Truthy(Get(jsonData, "mlips"))
    /\ Mounted /\ memos # NoValue

====
